---- MODULE Spec2Model ----
(***************************************************************************)
(* A model of the product-comparison pipeline:                             *)
(*   ScraperService.fetch_page          (src/backend/services/scraper_service.py) *)
(*   SearchService.search_products      (src/backend/services/search_service.py)  *)
(*   Agent1ProductDiscovery.execute     (src/backend/agents/agent1_product_discovery.py) *)
(*   Agent2DataRetrieval.execute        (src/backend/agents/agent2_data_retrieval.py)    *)
(*   Agent4SpecExtraction.execute       (src/backend/agents/agent4_spec_extraction.py)   *)
(*   compare_products                   (src/main.py)                      *)
(* Python strings are TLA+ strings; Len, SubSeq and \o act on them as on   *)
(* sequences of characters.                                                *)
(***************************************************************************)
EXTENDS Integers, Sequences, FiniteSets, TLC

VARIABLES fetch, div, sin, req, call

vars == <<fetch, div, sin, req, call>>

(***************************************************************************)
(* String helpers (Python's  in,  str.find,  str.replace  on strings).     *)
(***************************************************************************)

\* s[a-1:b] with Python's clamping of the bounds
Slice(s, a, b) ==
    LET lo == IF a < 1 THEN 1 ELSE a
        hi == IF b > Len(s) THEN Len(s) ELSE b
    IN  IF lo > hi THEN "" ELSE SubSeq(s, lo, hi)

\* sub in s
Contains(s, sub) ==
    \E i \in 1..(Len(s) - Len(sub) + 1) : SubSeq(s, i, i + Len(sub) - 1) = sub

\* the least i with s[i..] starting with one of the strings of subs, or 0
FindAny(s, subs) ==
    LET hits == {i \in 1..Len(s) : \E sub \in subs : Slice(s, i, i + Len(sub) - 1) = sub}
    IN  IF hits = {} THEN 0 ELSE CHOOSE i \in hits : \A j \in hits : i <= j

\* Python's None where a string is expected (str(None) holds no marker)
None == "<None>"

\* truth value of a string-or-None
Truthy(x) == x # "" /\ x # None

\* str.lower()
LowerChar(c) ==
    CASE c = "A" -> "a" [] c = "B" -> "b" [] c = "C" -> "c" [] c = "D" -> "d"
      [] c = "E" -> "e" [] c = "F" -> "f" [] c = "G" -> "g" [] c = "H" -> "h"
      [] c = "I" -> "i" [] c = "J" -> "j" [] c = "K" -> "k" [] c = "L" -> "l"
      [] c = "M" -> "m" [] c = "N" -> "n" [] c = "O" -> "o" [] c = "P" -> "p"
      [] c = "Q" -> "q" [] c = "R" -> "r" [] c = "S" -> "s" [] c = "T" -> "t"
      [] c = "U" -> "u" [] c = "V" -> "v" [] c = "W" -> "w" [] c = "X" -> "x"
      [] c = "Y" -> "y" [] c = "Z" -> "z" [] OTHER -> c

RECURSIVE Lower(_)
Lower(s) == IF s = "" THEN "" ELSE LowerChar(Slice(s, 1, 1)) \o Lower(Slice(s, 2, Len(s)))

\* str.strip()
RECURSIVE Strip(_)
Strip(s) ==
    IF s = "" THEN ""
    ELSE IF Slice(s, 1, 1) = " " THEN Strip(Slice(s, 2, Len(s)))
    ELSE IF Slice(s, Len(s), Len(s)) = " " THEN Strip(Slice(s, 1, Len(s) - 1))
    ELSE s

\* str.replace(old, new), old not empty
RECURSIVE Replace(_, _, _)
Replace(s, old, new) ==
    IF Len(s) < Len(old) THEN s
    ELSE IF Slice(s, 1, Len(old)) = old
         THEN new \o Replace(Slice(s, Len(old) + 1, Len(s)), old, new)
         ELSE Slice(s, 1, 1) \o Replace(Slice(s, 2, Len(s)), old, new)

\* list.sort(key=...) / sorted(..., key=...): a stable sort, ascending
RECURSIVE InsertByKey(_, _)
InsertByKey(sorted, x) ==
    IF sorted = <<>> THEN <<x>>
    ELSE IF x.k < Head(sorted).k THEN <<x>> \o sorted
    ELSE <<Head(sorted)>> \o InsertByKey(Tail(sorted), x)

RECURSIVE SortPairs(_)
SortPairs(pairs) ==
    IF pairs = <<>> THEN <<>>
    ELSE InsertByKey(SortPairs(SubSeq(pairs, 1, Len(pairs) - 1)), pairs[Len(pairs)])

SortedBy(seq, key(_)) ==
    LET sorted == SortPairs([i \in 1..Len(seq) |-> [k |-> key(seq[i]), v |-> seq[i]]])
    IN  [i \in 1..Len(seq) |-> sorted[i].v]

\* the elements of a sequence, and the first n of them (seq[:n])
Range(seq) == {seq[i] : i \in 1..Len(seq)}
Take(seq, n) == IF n >= Len(seq) THEN seq ELSE IF n <= 0 THEN <<>> ELSE SubSeq(seq, 1, n)

\* the marker of the target currency and of the source currency
\* The rupee sign U+20B9 of the prices is written ~ here: TLC stores the
\* characters of a string of a state in one byte each.
INR == "~"
USD == "$"

(***************************************************************************)
(* ScraperService.fetch_page                                               *)
(***************************************************************************)

MAX_RETRIES == 3

\* The values fetch_page may be handed: Python strings (well formed or not)
\* and values that are no strings.
PyStr(s) == [type |-> "str", text |-> s]
PyNone == [type |-> "none", text |-> ""]
PyInt == [type |-> "int", text |-> ""]

\* urllib.parse.urlparse(url).netloc.lower() as fetch_page uses it.  A str is
\* split at "//" and the next "/", "?" or "#"; a netloc with an unmatched
\* bracket raises ValueError.  None is coerced to bytes (netloc b''), any
\* other non-string has no decode() and raises AttributeError.
UrlNetloc(text) ==
    LET start == FindAny(text, {"//"})
        rest  == IF start = 0 THEN "" ELSE Slice(text, start + 2, Len(text))
        stop  == FindAny(rest, {"/", "?", "#"})
    IN  IF stop = 0 THEN rest ELSE Slice(rest, 1, stop - 1)

UrlParse(url) ==
    IF url.type = "none" THEN [raised |-> FALSE, bytes |-> TRUE, netloc |-> ""]
    ELSE IF url.type # "str" THEN [raised |-> TRUE, bytes |-> FALSE, netloc |-> ""]
    ELSE LET n == UrlNetloc(url.text)
         IN  IF Contains(n, "[") # Contains(n, "]")
             THEN [raised |-> TRUE, bytes |-> FALSE, netloc |-> ""]
             ELSE [raised |-> FALSE, bytes |-> FALSE, netloc |-> n]

protected_domains ==
    {"amazon.com", "walmart.com", "target.com", "bestbuy.com", "unilever.com",
     "pepsodent.com", "close-up.com", "colgate.com", "samsung.com", "apple.com",
     "flipkart.com", "ebay.com", "newegg.com"}

\* a test for the domain itself, not for a name that holds it
NeedsCloudscraperExact(domain) == domain \in protected_domains

NeedsCloudscraper(domain) == \E p \in protected_domains : Contains(domain, p)

\* What one transport request of one attempt can end in.  "invalid" is the
\* exception requests raises for a URL it cannot send (no schema, no host),
\* "parse_error" an exception while the page is parsed and extracted; both
\* reach the generic except clause.
HttpRetryCodes == {403, 429, 503}
HttpCodes == {403, 429, 503, 404, 500}
Outcomes == {"timeout", "connection", "challenge", "http", "blocked", "clean",
             "invalid", "parse_error"}

\* The prices _extract_price can find on a page.
ScrapedPrices == {"", "$6", "~700"}

FetchIdle ==
    [pc |-> "idle", url |-> PyStr(""), needs |-> FALSE, attempt |-> 0,
     status |-> "none", error |-> "", http_status |-> 0, price |-> "",
     requests |-> 0, delays |-> 0, last |-> "none", transport |-> "none", log |-> <<>>]

\* _error_response
ErrorResponse(f, error, code) ==
    [f EXCEPT !.pc = "returned", !.status = "error", !.error = error,
              !.http_status = code, !.price = ""]

\* Lines 96-100: the code before the retry loop, outside every try block.
FetchBegin(f, url) ==
    LET p == UrlParse(url)
    IN  IF p.raised \/ p.bytes
        THEN [FetchIdle EXCEPT !.pc = "raised", !.url = url]
        ELSE [FetchIdle EXCEPT !.pc = "attempt", !.url = url,
                               !.needs = NeedsCloudscraper(p.netloc)]

\* a `continue` that starts the same iteration again
ContinueNoCount(f) ==
    IF f.attempt + 1 < MAX_RETRIES THEN f
    ELSE [f EXCEPT !.pc = "returned", !.status = "error",
                   !.error = "Max retries exceeded", !.http_status = 0, !.price = ""]

\* `continue`: the next iteration of  for attempt in range(MAX_RETRIES), or,
\* the range exhausted, the return after the loop (line 197).
Continue(f) ==
    IF f.attempt + 1 < MAX_RETRIES
    THEN [f EXCEPT !.attempt = f.attempt + 1]
    ELSE ErrorResponse([f EXCEPT !.attempt = f.attempt + 1], "Max retries exceeded", 0)

\* One iteration of the loop, lines 102-195: the request of this attempt ends
\* in outcome o (HTTP error code c, scraped price pr).
FetchTry(f, o, c, pr) ==
    LET d0 == IF f.attempt > 0 THEN 1 ELSE 0
        tr == IF f.needs THEN "cloudscraper" ELSE "requests"
        g  == [f EXCEPT !.requests = f.requests + 1, !.last = o, !.transport = tr,
                        !.delays = f.delays + d0,
                        !.log = Append(@, [transport |-> tr, outcome |-> o,
                                           code |-> IF o = "http" THEN c ELSE 0,
                                           delays |-> f.delays + d0])]
        retry == [g EXCEPT !.delays = g.delays + 1]
        more == f.attempt < MAX_RETRIES - 1
    IN  CASE o = "clean" ->
               [g EXCEPT !.pc = "returned", !.status = "success",
                         !.http_status = 200, !.price = pr]
          [] o = "blocked" -> Continue([g EXCEPT !.needs = TRUE])
          [] o = "timeout" ->
               IF more THEN Continue(retry) ELSE ErrorResponse(g, "Request timeout", 408)
          [] o = "http" ->
               IF c \in HttpRetryCodes /\ more
               THEN Continue([retry EXCEPT !.needs = TRUE])
               ELSE ErrorResponse(g, "HTTP error", c)
          [] o = "connection" ->
               IF more THEN Continue(retry) ELSE ErrorResponse(g, "Connection error", 0)
          [] o = "challenge" ->
               IF more THEN Continue(retry) ELSE ErrorResponse(g, "Cloudflare protection", 403)
          [] OTHER -> ErrorResponse(g, "exception", 0)

\* The outcomes the transport can produce for this fetch: a URL requests
\* cannot send raises before anything is sent; only cloudscraper raises
\* CloudflareChallengeError.
Sendable(url) == url.type = "str" /\ Slice(url.text, 1, 4) = "http" /\ UrlNetloc(url.text) # ""

PossibleOutcomes(f) ==
    IF ~Sendable(f.url) THEN {"invalid"}
    ELSE {o \in Outcomes : o # "invalid" /\ (o = "challenge" => f.needs)}

FetchUrls ==
    {PyStr("https://www.gsmarena.com/a"), PyStr("https://www.amazon.com/b"),
     PyStr("https://www.flipkart.com/c"), PyStr(""), PyStr("not a url"),
     PyStr("http://["), PyNone, PyInt}

FetchStart ==
    /\ fetch.pc = "idle"
    /\ \E url \in FetchUrls : fetch' = FetchBegin(fetch, url)
    /\ UNCHANGED <<div, sin, req, call>>

\* one pass of the retry loop, its outcome drawn from the given sets
FetchAttemptWith(outcomes, codes, prices) ==
    /\ fetch.pc = "attempt"
    /\ \E o \in PossibleOutcomes(fetch) \cap outcomes, c \in codes, pr \in prices :
          /\ (o # "http" => c = 403)
          /\ (o # "clean" => pr = "")
          /\ fetch' = FetchTry(fetch, o, c, pr)
    /\ UNCHANGED <<div, sin, req, call>>

FetchAttempt == FetchAttemptWith(Outcomes, HttpCodes, ScrapedPrices)

(***************************************************************************)
(* SearchService                                                           *)
(***************************************************************************)

\* _extract_domain
ExtractDomain(url) ==
    LET p == UrlParse(PyStr(url))
    IN  IF p.raised THEN "unknown" ELSE Lower(Replace(p.netloc, "www.", ""))

\* SOURCE_PRIORITY.get(domain, 99)
SourcePriority(domain) ==
    CASE domain = "amazon.in" -> 1 [] domain = "amazon.com" -> 2
      [] domain = "flipkart.com" -> 3 [] domain = "croma.com" -> 4
      [] domain = "vijaysales.com" -> 5 [] domain = "reliancedigital.in" -> 6
      [] domain = "bigbasket.com" -> 7 [] domain = "jiomart.com" -> 8
      [] domain = "1mg.com" -> 9 [] domain = "netmeds.com" -> 10
      [] domain = "gsmarena.com" -> 11 [] domain = "91mobiles.com" -> 12
      [] domain = "smartprix.com" -> 13 [] domain = "gadgets360.com" -> 14
      [] OTHER -> 99

\* A backend call that fails (connection error, bad JSON, ...), caught by the
\* except clause of _search_shopping / _search_specs
BackendFailure == [ok |-> FALSE, items |-> <<>>]
BackendResults(items) == [ok |-> TRUE, items |-> items]

\* _search_shopping: the formatted results of the price search
FormatShopping(r) ==
    [url |-> r.link, domain |-> ExtractDomain(r.link), price |-> r.price,
     image |-> r.imageUrl, rating |-> r.rating, api_source |-> "shopping",
     priority |-> 99]

SearchShopping(response, num_results) ==
    IF ~response.ok THEN <<>>
    ELSE LET kept == Take(response.items, num_results)
         IN  [i \in 1..Len(kept) |-> FormatShopping(kept[i])]

\* _search_specs: the formatted results of the specification search
FormatSpec(r) ==
    [url |-> r.link, domain |-> ExtractDomain(r.link), price |-> None,
     image |-> None, rating |-> None, api_source |-> "search",
     priority |-> SourcePriority(ExtractDomain(r.link))]

SearchSpecs(response) ==
    IF ~response.ok THEN <<>>
    ELSE [i \in 1..Len(response.items) |-> FormatSpec(response.items[i])]

\* _normalize_domain
NormalizeDomain(domain) ==
    IF ~Truthy(domain) THEN "unknown"
    ELSE LET d == Replace(Strip(Lower(domain)), "www.", "")
         IN  IF Contains(d, "amazon") THEN "amazon.in"
             ELSE IF Contains(d, "flipkart") THEN "flipkart.com"
             ELSE d

\* lines 320-334: the best price, image and rating of the price search
FirstOr(seq, P(_), field(_), default) ==
    LET hits == {i \in 1..Len(seq) : P(seq[i])}
    IN  IF hits = {} THEN default
        ELSE field(seq[CHOOSE i \in hits : \A j \in hits : i <= j])

HasINR(x) == Truthy(x) /\ Contains(x, INR)

BestPrice(shopping) ==
    LET P(r) == HasINR(r.price)
        F(r) == r.price
    IN  FirstOr(shopping, P, F, None)

BestImage(shopping) ==
    LET P(r) == HasINR(r.price) /\ Truthy(r.image)
        F(r) == r.image
    IN  FirstOr(shopping, P, F, None)

BestRating(shopping) ==
    LET P(r) == HasINR(r.price) /\ Truthy(r.rating)
        F(r) == r.rating
    IN  FirstOr(shopping, P, F, None)

\* lines 341-379: one entry of the merged pool
SpecEntry(spec, shopping) ==
    [spec EXCEPT !.price = BestPrice(shopping), !.image = BestImage(shopping),
                 !.rating = BestRating(shopping)]

ShopEntry(shop, shopping) ==
    [shop EXCEPT !.priority = SourcePriority(shop.domain)]

\* AddToPool without the seen_urls test
AddToPoolNoSeen(pool, entries) ==
    pool \o SelectSeq(entries, LAMBDA e : Truthy(e.url))

\* the loops over specs and shopping: an entry joins the pool unless its
\* URL is empty or already seen
RECURSIVE AddToPool(_, _)
AddToPool(pool, entries) ==
    IF entries = <<>> THEN pool
    ELSE LET e == Head(entries)
             seen == {pool[i].url : i \in 1..Len(pool)}
         IN  AddToPool(IF Truthy(e.url) /\ e.url \notin seen THEN Append(pool, e) ELSE pool,
                       Tail(entries))

MergedPool(shopping, specs) ==
    AddToPool(AddToPool(<<>>, [i \in 1..Len(specs) |-> SpecEntry(specs[i], shopping)]),
              [i \in 1..Len(shopping) |-> ShopEntry(shopping[i], shopping)])

\* _diversify_by_source, lines 415-436: the groups and their order
RECURSIVE DomainKeys(_, _)
DomainKeys(keys, results) ==
    IF results = <<>> THEN keys
    ELSE LET d == NormalizeDomain(Head(results).domain)
         IN  DomainKeys(IF d \in Range(keys) THEN keys ELSE Append(keys, d), Tail(results))

PriorityOf(r) == r.priority

GroupOf(results, d) ==
    LET In(r) == NormalizeDomain(r.domain) = d
    IN  SortedBy(SelectSeq(results, In), PriorityOf)

priority_order == <<"amazon.in", "flipkart.com", "croma.com", "bigbasket.com", "jiomart.com", "1mg.com">>

DomainRank(d) ==
    LET hits == {i \in 1..Len(priority_order) : Contains(d, priority_order[i])}
    IN  IF hits = {} THEN 99 ELSE (CHOOSE i \in hits : \A j \in hits : i <= j) - 1

SortedDomains(results) == SortedBy(DomainKeys(<<>>, results), DomainRank)

\* a first pass that takes the pool's first results, whatever their group
FirstPassPoolOrder(out, domains, results, n) == Take(results, n)

\* lines 439-448: the first pass takes the top result of each group
RECURSIVE FirstPass(_, _, _, _)
FirstPass(out, domains, results, n) ==
    IF domains = <<>> \/ Len(out) >= n THEN out
    ELSE FirstPass(Append(out, GroupOf(results, Head(domains))[1]), Tail(domains), results, n)

\* The state of the selection when the second pass begins (line 451):
\* by_domain (domains, groups), domain_indices (idx), diversified (out) and
\* round_robin_idx (rr)
DivBegin(results, n) ==
    LET doms == SortedDomains(results)
        out  == FirstPass(<<>>, doms, results, n)
    IN  [pc |-> IF results = <<>> THEN "returned" ELSE "loop",
         results |-> results, n |-> n, domains |-> doms,
         groups |-> [i \in 1..Len(doms) |-> GroupOf(results, doms[i])],
         idx |-> [i \in 1..Len(doms) |-> IF i <= Len(out) THEN 1 ELSE 0],
         out |-> out, rr |-> 0]

\* a second pass that counts a round only when it looked at a result
DivStepCountsTakenOnly(d) ==
    IF Len(d.out) >= d.n
    THEN [d EXCEPT !.pc = "returned", !.out = Take(d.out, d.n)]
    ELSE LET k     == (d.rr % Len(d.domains)) + 1
             group == d.groups[k]
             i     == d.idx[k]
             taken == i < Len(group)
         IN  IF ~taken THEN d
             ELSE [d EXCEPT !.out = IF group[i + 1] \notin Range(d.out)
                                    THEN Append(d.out, group[i + 1]) ELSE d.out,
                            !.idx = [d.idx EXCEPT ![k] = i + 1],
                            !.rr = d.rr + 1]

\* One evaluation of the while condition and, if it holds, one iteration of
\* the second pass (lines 452-466); otherwise the return (line 468)
DivStep(d) ==
    IF Len(d.out) >= d.n
    THEN [d EXCEPT !.pc = "returned", !.out = Take(d.out, d.n)]
    ELSE LET k     == (d.rr % Len(d.domains)) + 1
             group == d.groups[k]
             i     == d.idx[k]
             taken == i < Len(group)
             out1  == IF taken /\ group[i + 1] \notin Range(d.out)
                      THEN Append(d.out, group[i + 1]) ELSE d.out
             idx1  == IF taken THEN [d.idx EXCEPT ![k] = i + 1] ELSE d.idx
             rr1   == d.rr + 1
         IN  IF rr1 > Len(d.results) + d.n
             THEN [d EXCEPT !.pc = "returned", !.out = Take(out1, d.n), !.idx = idx1, !.rr = rr1]
             ELSE [d EXCEPT !.out = out1, !.idx = idx1, !.rr = rr1]

RECURSIVE DivRun(_)
DivRun(d) == IF d.pc = "returned" THEN d ELSE DivRun(DivStep(d))

DiversifyBySource(results, n) == DivRun(DivBegin(results, n)).out

\* _combine_results_diversified
CombineResultsDiversified(shopping, specs, n) ==
    DiversifyBySource(MergedPool(shopping, specs), n)

\* a search where the two backend calls share one guard
SearchProductsSharedGuard(shop_response, spec_response, n) ==
    IF ~shop_response.ok \/ ~spec_response.ok THEN <<>>
    ELSE CombineResultsDiversified(SearchShopping(shop_response, n + 2),
                                   SearchSpecs(spec_response), n)

\* search_products, lines 108-128
SearchProducts(shop_response, spec_response, n) ==
    CombineResultsDiversified(SearchShopping(shop_response, n + 2), SearchSpecs(spec_response), n)

(***************************************************************************)
(* JSON values and Python dicts                                            *)
(***************************************************************************)

\* A JSON value as json.loads returns it: t is its type, s the text of a
\* string or number, kv the members of an object (key and value, in order)
\* or the items of a list (under the key "").
JStr(s) == [t |-> "str", s |-> s, kv |-> <<>>]
JNum(s) == [t |-> "num", s |-> s, kv |-> <<>>]
JBool(b) == [t |-> "bool", s |-> IF b THEN "True" ELSE "False", kv |-> <<>>]
JNull == [t |-> "null", s |-> "", kv |-> <<>>]
JObj(kv) == [t |-> "obj", s |-> "", kv |-> kv]
JList(items) == [t |-> "list", s |-> "", kv |-> [i \in 1..Len(items) |-> [k |-> "", v |-> items[i]]]]
KV(k, v) == [k |-> k, v |-> v]

IsScalar(v) == v.t \in {"str", "num"}

\* a dict is the sequence of its items in insertion order
DictKeys(d) == {d[i].k : i \in 1..Len(d)}
DictHas(d, k) == k \in DictKeys(d)
DictGet(d, k, default) ==
    IF DictHas(d, k) THEN d[CHOOSE i \in 1..Len(d) : d[i].k = k].v ELSE default
\* d[k] = v: an existing key keeps its place
DictSet(d, k, v) ==
    IF DictHas(d, k) THEN [i \in 1..Len(d) |-> IF d[i].k = k THEN KV(k, v) ELSE d[i]]
    ELSE Append(d, KV(k, v))

RECURSIVE DictFrom(_, _)
DictFrom(d, items) ==
    IF items = <<>> THEN d
    ELSE DictFrom(DictSet(d, Head(items).k, Head(items).v), Tail(items))

\* str(v) and bool(v) of a scalar
StrOf(v) == v.s
JTruthy(v) ==
    CASE v.t = "str" -> v.s # ""
      [] v.t = "num" -> v.s \notin {"0", "0.0"}
      [] v.t = "bool" -> v.s = "True"
      [] v.t = "null" -> FALSE
      [] OTHER -> v.kv # <<>>

(***************************************************************************)
(* Agent4SpecExtraction: parsing, flattening, price, keys                  *)
(***************************************************************************)

wrapper_keys ==
    {"smartphone", "phone", "mobile", "laptop", "tablet", "toothpaste", "shampoo",
     "product", "specs", "specifications"}

\* _flatten_specs, lines 425-443: the loop over the items of a dict
FlattenItems(kv) ==
    LET Lifted(item) ==
            IF item.v.t = "obj"
            THEN IF Lower(item.k) \in wrapper_keys
                 THEN SelectSeq(item.v.kv, LAMBDA inner : inner.v.t # "obj")
                 ELSE <<>>
            ELSE <<item>>
        RECURSIVE Walk(_, _)
        Walk(acc, rest) ==
            IF rest = <<>> THEN acc
            ELSE Walk(DictFrom(acc, Lifted(Head(rest))), Tail(rest))
    IN  Walk(<<>>, kv)

\* _flatten_specs
RECURSIVE FlattenSpecs(_)
FlattenSpecs(specs) ==
    IF specs.t # "obj" THEN <<>>
    ELSE IF Len(specs.kv) = 1 /\ specs.kv[1].v.t = "obj" THEN FlattenSpecs(specs.kv[1].v)
    ELSE FlattenItems(specs.kv)

\* _parse_specs, lines 382-399: the cleaning of the flattened values
\* v.upper() in ['UNKNOWN', 'N/A', '', 'NOT APPLICABLE', 'NONE']: the letters of
\* v compared without case
placeholders == {"unknown", "n/a", "", "not applicable", "none"}

CleanValue(v) == IF v.t = "bool" THEN JStr(IF v.s = "True" THEN "Yes" ELSE "No") ELSE v

\* a cleaning that lets lists through
KeptWithLists(v) ==
    /\ v.t # "null"
    /\ ~(v.t = "str" /\ Lower(v.s) \in placeholders)
    /\ v.t # "obj"

\* lines 384-393: the values that survive the cleaning
Kept(v) ==
    /\ v.t # "null"
    /\ ~(v.t = "str" /\ Lower(v.s) \in placeholders)
    /\ v.t \notin {"obj", "list"}

CleanSpecs(flat) ==
    LET kept == SelectSeq(flat, LAMBDA item : Kept(item.v))
    IN  [i \in 1..Len(kept) |-> KV(kept[i].k, CleanValue(kept[i].v))]

\* What the oracle (llm_service.extract_products) can answer: it raises, or
\* returns a text that is empty, holds no brace-delimited part ("prose"),
\* holds one that json.loads rejects ("invalid"), or holds a JSON value.
OracleRaises == [kind |-> "raise", value |-> JNull]
OracleEmpty == [kind |-> "empty", value |-> JNull]
OracleProse == [kind |-> "prose", value |-> JNull]
OracleInvalid == [kind |-> "invalid", value |-> JNull]
OracleJson(v) == [kind |-> "json", value |-> v]

\* _parse_specs; None is the empty dict (the caller tests  if specs)
ParseSpecs(response) ==
    IF response.kind # "json" THEN <<>>
    ELSE CleanSpecs(FlattenSpecs(response.value))

\* _convert_usd_to_inr -------------------------------------------------

USD_TO_INR == 83

Digits == {"0", "1", "2", "3", "4", "5", "6", "7", "8", "9"}

DigitVal(c) ==
    CASE c = "0" -> 0 [] c = "1" -> 1 [] c = "2" -> 2 [] c = "3" -> 3 [] c = "4" -> 4
      [] c = "5" -> 5 [] c = "6" -> 6 [] c = "7" -> 7 [] c = "8" -> 8 [] OTHER -> 9

DigitChar(n) ==
    CASE n = 0 -> "0" [] n = 1 -> "1" [] n = 2 -> "2" [] n = 3 -> "3" [] n = 4 -> "4"
      [] n = 5 -> "5" [] n = 6 -> "6" [] n = 7 -> "7" [] n = 8 -> "8" [] OTHER -> "9"

RECURSIVE Pow10(_)
Pow10(n) == IF n = 0 THEN 1 ELSE 10 * Pow10(n - 1)

\* re.search(r'[\d.]+', s): the first run of digits and dots, "" if none
NumberRun(s) ==
    LET IsNum(i) == Slice(s, i, i) \in Digits \cup {"."}
        starts == {i \in 1..Len(s) : IsNum(i)}
    IN  IF starts = {} THEN ""
        ELSE LET a == CHOOSE i \in starts : \A j \in starts : i <= j
                 ends == {i \in a..Len(s) : \A j \in a..i : IsNum(j)}
                 b == CHOOSE i \in ends : \A j \in ends : j <= i
             IN  Slice(s, a, b)

\* float(s) for a run of digits and dots: the value is mant / 10^scale;
\* more than one dot, or no digit, is a ValueError
RECURSIVE DigitsValue(_)
DigitsValue(s) ==
    IF s = "" THEN 0
    ELSE 10 * DigitsValue(Slice(s, 1, Len(s) - 1)) + DigitVal(Slice(s, Len(s), Len(s)))

ParseFloat(s) ==
    LET dots == {i \in 1..Len(s) : Slice(s, i, i) = "."}
    IN  IF Cardinality(dots) > 1 \/ Len(s) = Cardinality(dots)
        THEN [ok |-> FALSE, mant |-> 0, scale |-> 0]
        ELSE IF dots = {} THEN [ok |-> TRUE, mant |-> DigitsValue(s), scale |-> 0]
        ELSE LET d == CHOOSE i \in dots : TRUE
             IN  [ok |-> TRUE,
                  mant |-> DigitsValue(Slice(s, 1, d - 1) \o Slice(s, d + 1, Len(s))),
                  scale |-> Len(s) - d]

\* round(num / den) to the nearest integer, ties to even
RoundDiv(num, den) ==
    LET q == num \div den
        r == num % den
    IN  IF 2 * r > den \/ (2 * r = den /\ q % 2 = 1) THEN q + 1 ELSE q

RECURSIVE IntToStr(_)
IntToStr(n) == IF n < 10 THEN DigitChar(n) ELSE IntToStr(n \div 10) \o DigitChar(n % 10)

Pad(n, width) ==
    LET t == IntToStr(n)
    IN  IF Len(t) >= width THEN t ELSE Slice("000", 1, width - Len(t)) \o t

\* f"{n:,}"
RECURSIVE Grouped(_)
Grouped(n) == IF n < 1000 THEN IntToStr(n) ELSE Grouped(n \div 1000) \o "," \o Pad(n % 1000, 3)

\* None is returned as None (the string standing for it)
ConvertUsdToInr(usd_price) ==
    LET clean == Strip(Replace(Replace(usd_price, "$", ""), ",", ""))
        run   == NumberRun(clean)
        f     == ParseFloat(run)
        num   == f.mant * USD_TO_INR
        den   == Pow10(f.scale)
    IN  IF run = "" \/ ~f.ok THEN None
        ELSE IF num >= 1000 * den
             THEN INR \o Grouped(RoundDiv(num, den))
             ELSE LET cents == RoundDiv(num * 100, den)
                  IN  INR \o IntToStr(cents \div 100) \o "." \o Pad(cents % 100, 2)

\* _handle_price
FirstINR(all_prices) ==
    LET hits == {i \in 1..Len(all_prices) : HasINR(all_prices[i])}
    IN  IF hits = {} THEN None ELSE all_prices[CHOOSE i \in hits : \A j \in hits : i <= j]

HandlePrice(specs, shopping_price, product) ==
    LET current == DictGet(specs, "price", JStr(""))
        isUsd   == JTruthy(current) /\ Contains(StrOf(current), USD)
        inr     == IF isUsd /\ current.t = "str" THEN ConvertUsdToInr(current.s) ELSE None
        other   == FirstINR(product.all_prices)
    IN  IF HasINR(shopping_price) THEN DictSet(specs, "price", JStr(shopping_price))
        ELSE IF isUsd /\ Truthy(inr) THEN DictSet(specs, "price", JStr(inr))
        ELSE IF JTruthy(current) /\ Contains(StrOf(current), INR) THEN specs
        ELSE IF other # None THEN DictSet(specs, "price", JStr(other))
        ELSE specs

\* _normalize_keys
\* a table where a canonical key is itself a synonym
KeyNormalizationChained(k) ==
    CASE k = "resolution" -> "display_resolution"
      [] k \in {"screen_size", "screen", "display"} -> "display_size"
      [] k \in {"camera", "rear_camera", "back_camera"} -> "camera_main"
      [] k \in {"selfie_camera", "front_cam"} -> "camera_front"
      [] k \in {"chip", "chipset", "cpu", "soc"} -> "processor"
      [] k = "memory" -> "rom"
      [] k \in {"internal_storage", "rom"} -> "storage"
      [] k = "battery_capacity" -> "battery"
      [] k \in {"os_version", "operating_system"} -> "os"
      [] k \in {"weight_g", "mass"} -> "weight"
      [] OTHER -> k

\* KEY_NORMALIZATION.get(key_lower, key_lower)
KeyNormalization(k) ==
    CASE k = "resolution" -> "display_resolution"
      [] k \in {"screen_size", "screen", "display"} -> "display_size"
      [] k \in {"camera", "rear_camera", "back_camera"} -> "camera_main"
      [] k \in {"selfie_camera", "front_cam"} -> "camera_front"
      [] k \in {"chip", "chipset", "cpu", "soc"} -> "processor"
      [] k = "memory" -> "ram"
      [] k \in {"internal_storage", "rom"} -> "storage"
      [] k = "battery_capacity" -> "battery"
      [] k \in {"os_version", "operating_system"} -> "os"
      [] k \in {"weight_g", "mass"} -> "weight"
      [] OTHER -> k

NormalizeKey(key) == KeyNormalization(Replace(Lower(key), " ", "_"))

NormalizeKeys(specs) ==
    LET kept == SelectSeq(specs, LAMBDA item : ~(item.v.t = "null" \/ (item.v.t = "str" /\ item.v.s = "")))
    IN  DictFrom(<<>>, [i \in 1..Len(kept) |-> KV(NormalizeKey(kept[i].k), kept[i].v)])

\* _extract_specs: the product after the extraction, the oracle having
\* answered with response
StubSpecs(product) == <<KV("product_name", JStr(product.name))>>

\* an extraction without the final price check
FinalPriceCheckSkipped(product, shopping_price) == product

\* lines 185-187: the final price check
FinalPriceCheck(product, shopping_price) ==
    IF HasINR(shopping_price)
    THEN [product EXCEPT !.specifications = DictSet(@, "price", JStr(shopping_price))]
    ELSE product

\* an extraction that reports an exception like an answer without attributes
ExtractSpecsRaiseIsPartial(product, response) ==
    LET specs == ParseSpecs(response)
        done ==
            IF response.kind # "raise" /\ specs # <<>>
            THEN [product EXCEPT
                    !.specifications = NormalizeKeys(HandlePrice(specs, product.price, product)),
                    !.extraction_status = "success"]
            ELSE [product EXCEPT !.specifications = StubSpecs(product),
                                 !.extraction_status = "partial"]
    IN  FinalPriceCheck(done, product.price)

ExtractSpecs(product, response) ==
    LET shopping_price == product.price
        specs == ParseSpecs(response)
        done ==
            IF response.kind = "raise"
            THEN [product EXCEPT !.specifications = StubSpecs(product),
                                 !.extraction_status = "failed"]
            ELSE IF specs # <<>>
            THEN [product EXCEPT
                    !.specifications = NormalizeKeys(HandlePrice(specs, shopping_price, product)),
                    !.extraction_status = "success"]
            ELSE [product EXCEPT !.specifications = StubSpecs(product),
                                 !.extraction_status = "partial"]
    IN  FinalPriceCheck(done, shopping_price)

(***************************************************************************)
(* Agent1ProductDiscovery                                                  *)
(***************************************************************************)

\* str.split(): the words of a text, runs of characters other than blanks
RECURSIVE WordsFrom(_, _, _)
WordsFrom(s, word, acc) ==
    IF s = "" THEN (IF word = "" THEN acc ELSE Append(acc, word))
    ELSE IF Slice(s, 1, 1) = " "
         THEN WordsFrom(Slice(s, 2, Len(s)), "", IF word = "" THEN acc ELSE Append(acc, word))
         ELSE WordsFrom(Slice(s, 2, Len(s)), word \o Slice(s, 1, 1), acc)

Words(s) == WordsFrom(s, "", <<>>)

RECURSIVE Join(_)
Join(words) ==
    IF words = <<>> THEN ""
    ELSE IF Len(words) = 1 THEN words[1]
    ELSE words[1] \o " " \o Join(Tail(words))

connectives == {"vs", "vs.", "versus", "or", "and"}
fillers == {"compare", "which", "best", "better", "for", "gaming", "my", "is", "the"}

\* re.sub(r'\s+(vs\.?|versus|or|and)\s+', ' ||| ', query) and split(' ||| '):
\* a connective word with blanks on both sides ends a part; the blanks of a
\* match are used up, so the word right after a connective is none.  The
\* words of a query are letters and digits, blanks separate them.
RECURSIVE SplitParts(_, _, _, _)
SplitParts(words, i, part, parts) ==
    IF i > Len(words) THEN Append(parts, part)
    ELSE IF Lower(words[i]) \in connectives /\ i > 1 /\ i < Len(words) /\ part # <<>>
         THEN SplitParts(words, i + 1, <<>>, Append(parts, part))
         ELSE SplitParts(words, i + 1, Append(part, words[i]), parts)

\* lines 143-148: the fillers removed, blanks collapsed, short fragments dropped
CleanPart(part) == Join(SelectSeq(part, LAMBDA w : Lower(w) \notin fillers))

CATEGORY_KEYWORDS ==
    <<[type |-> "smartphone",
       keywords |-> {"phone", "mobile", "iphone", "galaxy", "pixel", "oneplus", "xiaomi",
                     "redmi", "poco", "oppo", "vivo", "realme", "nothing", "motorola",
                     "nokia", "samsung"}],
      [type |-> "laptop",
       keywords |-> {"laptop", "macbook", "thinkpad", "xps", "zenbook", "notebook",
                     "chromebook", "surface", "pavilion", "inspiron", "legion", "rog"}],
      [type |-> "tablet", keywords |-> {"ipad", "tab", "tablet"}],
      [type |-> "headphones",
       keywords |-> {"airpods", "headphone", "earbuds", "earphone", "buds", "headset"}],
      [type |-> "smartwatch", keywords |-> {"watch", "fitbit", "garmin", "band"}],
      [type |-> "tv", keywords |-> {"tv", "television", "oled", "qled"}]>>

DetectType(query) ==
    LET q == Lower(query)
        hits == {i \in 1..Len(CATEGORY_KEYWORDS) :
                    \E kw \in CATEGORY_KEYWORDS[i].keywords : Contains(q, kw)}
    IN  IF hits = {} THEN "general"
        ELSE CATEGORY_KEYWORDS[CHOOSE i \in hits : \A j \in hits : i <= j].type

\* _extract_products_regex
ExtractProductsRegex(query) ==
    LET parts == SplitParts(Words(query), 1, <<>>, <<>>)
        cleaned == [i \in 1..Len(parts) |-> CleanPart(parts[i])]
    IN  [product_names |-> SelectSeq(cleaned, LAMBDA c : Len(c) >= 3),
         product_type |-> DetectType(query)]

\* _extract_products_llm: the names and the type the oracle's answer gives;
\* names is the JSON value of "product_names" when it is truthy
NoNames == [found |-> FALSE, names |-> JNull, product_type |-> "general"]

ExtractProductsLlm(response) ==
    IF response.kind # "json" \/ response.value.t # "obj" THEN NoNames
    ELSE LET names == DictGet(response.value.kv, "product_names", JNull)
         IN  IF ~JTruthy(names) THEN NoNames
             ELSE [found |-> TRUE, names |-> names,
                   product_type |-> StrOf(DictGet(response.value.kv, "product_type",
                                                  JStr("smartphone")))]

\* _search_product: the product built from the results of search_products
NUM_RESULTS == 3

FirstPriceINR(results) ==
    LET hits == {i \in 1..Len(results) : HasINR(results[i].price)}
    IN  IF hits = {} THEN None ELSE results[CHOOSE i \in hits : \A j \in hits : i <= j].price

\* lines 176-222: the product built from the results
ProductOf(name, results) ==
    LET priced == SelectSeq(results, LAMBDA r : HasINR(r.price))
    IN  [name |-> name,
         urls |-> [i \in 1..Len(results) |-> results[i].url],
         price |-> FirstPriceINR(results),
         all_prices |-> [i \in 1..Len(priced) |-> priced[i].price],
         fetched |-> <<>>, urls_fetched |-> 0, urls_failed |-> 0,
         specifications |-> <<>>, extraction_status |-> "none"]

SearchProduct(name, shop_response, spec_response) ==
    ProductOf(name, SearchProducts(shop_response, spec_response, NUM_RESULTS))

(***************************************************************************)
(* search_products as a process: the merge and the first pass, then the    *)
(* second pass one iteration at a time.                                    *)
(***************************************************************************)

\* no function is under examination on its own
CallIdle == [pc |-> "idle"]

\* the state of compare_products before a request arrives
ReqIdle ==
    [pc |-> "idle", user_query |-> "", http |-> 0,
     a1_query |-> "<None>", a2_query |-> "<None>", a4_query |-> "<None>",
     a1_status |-> "none", names |-> <<>>, product_type |-> "", oracle_found |-> FALSE,
     a1_products |-> <<>>, backends |-> <<>>,
     a2_status |-> "none", products |-> <<>>, pi |-> 1, ui |-> 1,
     a4_status |-> "none", user_preferences |-> <<>>,
     recommendation |-> [status |-> "none", priority_winner |-> "", overall_winner |-> ""],
     response |-> <<>>, answers |-> <<>>, rec_kind |-> "none",
     fetch_calls |-> 0, oracle_calls |-> 0, transport_requests |-> 0]

\* bounds: results per backend response, and the number of results asked for
MaxBackendResults == 2
MaxNum == 3

SeqsUpTo(S, n) == UNION {[1..k -> S] : k \in 0..n}

\* what the backends can return: shopping results and organic results
ShopItems ==
    {[link |-> "https://www.amazon.in/p1", price |-> "~500", imageUrl |-> "img1", rating |-> "4.5"],
     [link |-> "https://www.flipkart.com/p4", price |-> "", imageUrl |-> "", rating |-> None],
     [link |-> "https://amazon.com/p3", price |-> "$6", imageUrl |-> "img3", rating |-> None],
     [link |-> "", price |-> "~450", imageUrl |-> "", rating |-> "4.0"]}

OrganicItems ==
    {[link |-> "https://www.amazon.in/p1"], [link |-> "https://www.amazon.in/p2"],
     [link |-> "https://www.gsmarena.com/p5"], [link |-> "https://www.flipkart.com/p4"]}

ShopResponses ==
    {BackendFailure} \cup {BackendResults(l) : l \in SeqsUpTo(ShopItems, MaxBackendResults)}
SpecResponses ==
    {BackendFailure} \cup {BackendResults(l) : l \in SeqsUpTo(OrganicItems, MaxBackendResults)}

DivIdle ==
    [pc |-> "idle", results |-> <<>>, n |-> 0, domains |-> <<>>, groups |-> <<>>, idx |-> <<>>,
     out |-> <<>>, rr |-> 0]

SinIdle == [shop |-> BackendFailure, spec |-> BackendFailure, n |-> 0]

\* search_products up to the start of the second pass
SearchStart ==
    /\ div.pc = "idle"
    /\ div' = DivBegin(MergedPool(SearchShopping(sin.shop, sin.n + 2), SearchSpecs(sin.spec)),
                       sin.n)
    /\ UNCHANGED <<fetch, sin, req, call>>

\* one iteration of the second pass, or the return
DivRound ==
    /\ div.pc = "loop"
    /\ div' = DivStep(div)
    /\ UNCHANGED <<fetch, sin, req, call>>

\* a search request: the query's two backend responses and num_results
SearchInit ==
    /\ fetch = FetchIdle /\ div = DivIdle /\ req = ReqIdle /\ call = CallIdle
    /\ sin \in [shop : ShopResponses, spec : SpecResponses, n : 0..MaxNum]

SearchNext == SearchStart \/ DivRound

SpecSearch == SearchInit /\ [][SearchNext]_vars

\* the second pass is a loop of one thread: it keeps running while it can
SpecSearchFair == SpecSearch /\ WF_vars(DivRound)

(***************************************************************************)
(* Agent2DataRetrieval, Agent4SpecExtraction.execute and compare_products  *)
(***************************************************************************)

\* _extract_best_price: the first non-empty price of the fetched pages
ExtractBestPrice(fetched) ==
    LET hits == {i \in 1..Len(fetched) : Truthy(fetched[i].price)}
    IN  IF hits = {} THEN "" ELSE fetched[CHOOSE i \in hits : \A j \in hits : i <= j].price

\* _process_product, lines 159-187: the outcome of one fetch is recorded
RecordFetch(product, f) ==
    IF f.status = "success"
    THEN [product EXCEPT !.urls_fetched = @ + 1,
                         !.fetched = Append(@, [url |-> f.url.text, price |-> f.price])]
    ELSE [product EXCEPT !.urls_failed = @ + 1]

\* _process_product, lines 189-202: after the last URL
FinishProduct(product) == [product EXCEPT !.price = ExtractBestPrice(product.fetched)]

\* _detect_preferences: the first three items of the JSON array, [] if the
\* oracle raised or its answer holds no array
DetectPreferences(query, response) ==
    IF query = "" \/ response.kind # "json" \/ response.value.t # "list" THEN <<>>
    ELSE Take([i \in 1..Len(response.value.kv) |-> StrOf(response.value.kv[i].v)], 3)

\* _fallback_recommendation and _generate_recommendations
FallbackRecommendation(products) ==
    [status |-> "fallback", priority_winner |-> products[1].name,
     overall_winner |-> products[1].name]

GenerateRecommendations(products, response) ==
    IF Len(products) < 2
    THEN [status |-> "insufficient_products", priority_winner |-> "", overall_winner |-> ""]
    ELSE IF response.kind = "json" /\ response.value.t = "obj"
    THEN [status |-> "success",
          priority_winner |-> StrOf(DictGet(response.value.kv, "priority_winner", JStr(""))),
          overall_winner |-> StrOf(DictGet(response.value.kv, "overall_winner", JStr("")))]
    ELSE FallbackRecommendation(products)

\* build_comparison_response, lines 258-291: one formatted product
Agent1Price(a1_products, name) ==
    LET hits == {i \in 1..Len(a1_products) : a1_products[i].name = name}
    IN  IF hits = {} THEN ""
        ELSE a1_products[CHOOSE i \in hits : \A j \in hits : j <= i].price

NoPrice(price) == ~JTruthy(price) \/ (price.t = "str" /\ price.s \in {"N/A", "", "$,"})

FormatProduct(product, a1_products) ==
    LET p1 == DictGet(product.specifications, "price", JStr(""))
        p2 == IF NoPrice(p1) THEN JStr(product.price) ELSE p1
        p3 == IF NoPrice(p2) \/ p2.s = None THEN JStr(Agent1Price(a1_products, product.name)) ELSE p2
        price == IF p3.s = None THEN JStr("") ELSE p3
    IN  [name |-> product.name,
         specifications |-> IF JTruthy(price) /\ Contains(StrOf(price), INR)
                            THEN DictSet(product.specifications, "price", price)
                            ELSE product.specifications,
         extraction_status |-> product.extraction_status,
         price |-> price]

\* the inputs of one request -------------------------------------------

Queries == {"compare vivo y73 vs realme 8 pro", "iphone 15", ""}

NameResponses ==
    {OracleRaises, OracleProse,
     OracleJson(JObj(<<KV("product_names", JList(<<>>))>>)),
     OracleJson(JObj(<<KV("product_names", JList(<<JStr("Pixel 8"), JStr("Galaxy S24")>>)),
                       KV("product_type", JStr("smartphone"))>>)),
     OracleJson(JObj(<<KV("product_names", JList(<<JStr("Pixel 8")>>))>>)),
     OracleJson(JObj(<<KV("product_names", JNum("5"))>>))}

PipeShopResponses ==
    {BackendFailure,
     BackendResults(<<[link |-> "https://www.amazon.in/p1", price |-> "~500",
                       imageUrl |-> "img1", rating |-> "4.5"]>>)}

PipeSpecResponses ==
    {BackendFailure,
     BackendResults(<<[link |-> "https://www.gsmarena.com/p5"]>>),
     BackendResults(<<[link |-> "http://["]>>)}

PrefResponses == {OracleRaises, OracleJson(JList(<<JStr("camera")>>))}

PipeSpecAnswers ==
    {OracleRaises, OracleProse,
     OracleJson(JObj(<<KV("ram", JStr("8GB"))>>)),
     OracleJson(JObj(<<KV("cpu", JStr("A17")), KV("price", JStr("$350"))>>)),
     OracleJson(JObj(<<KV("price", JStr("~999"))>>))}

\* what a fetch of the request can meet
PipeOutcomes == {"timeout", "http", "blocked", "clean", "invalid"}
PipeCodes == {403, 404}
PipePrices == {"", "~700"}

RecResponses ==
    {OracleRaises, OracleProse, OracleInvalid,
     OracleJson(JObj(<<KV("priority_winner", JStr("B")), KV("overall_winner", JStr("B"))>>))}

\* compare_products ------------------------------------------------------

\* the request arrives (line 164)
Receive ==
    /\ req.pc = "idle"
    /\ \E q \in Queries : req' = [ReqIdle EXCEPT !.pc = "a1_llm", !.user_query = q]
    /\ UNCHANGED <<fetch, div, sin, call>>

\* a discovery that never asks the splitter
ExecuteNamesNoSplitter(query, response) ==
    LET llm == ExtractProductsLlm(response)
    IN  IF llm.found /\ llm.names.t # "list"
        THEN [status |-> "error", names |-> <<>>, product_type |-> ""]
        ELSE IF ~llm.found
        THEN [status |-> "no_products", names |-> <<>>, product_type |-> "unknown"]
        ELSE [status |-> "none",
              names |-> [i \in 1..Len(llm.names.kv) |-> StrOf(llm.names.kv[i].v)],
              product_type |-> llm.product_type]

\* Agent1ProductDiscovery.execute, lines 52-75 and 91-98: the names from the
\* oracle or, when it gives none, from the splitter.  A product_names that is
\* no list makes len() raise, and the except clause answers with status error.
ExecuteNames(query, response) ==
    LET llm   == ExtractProductsLlm(response)
        regex == ExtractProductsRegex(query)
        names == IF llm.found
                 THEN [i \in 1..Len(llm.names.kv) |-> StrOf(llm.names.kv[i].v)]
                 ELSE regex.product_names
        type  == IF llm.found THEN llm.product_type ELSE regex.product_type
    IN  IF llm.found /\ llm.names.t # "list"
        THEN [status |-> "error", names |-> <<>>, product_type |-> ""]
        ELSE IF names = <<>>
        THEN [status |-> "no_products", names |-> <<>>, product_type |-> "unknown"]
        ELSE [status |-> "none", names |-> names, product_type |-> type]

A1Names ==
    /\ req.pc = "a1_llm"
    /\ \E response \in NameResponses :
          LET r == ExecuteNames(req.user_query, response)
          IN  req' = [req EXCEPT !.pc = IF r.status = "none" THEN "a1_search" ELSE "gate",
                                 !.a1_status = r.status, !.names = r.names,
                                 !.a1_query = IF r.status = "none" THEN @ ELSE req.user_query,
                                 !.product_type = r.product_type,
                                 !.oracle_found = ExtractProductsLlm(response).found,
                                 !.oracle_calls = @ + 1]
    /\ UNCHANGED <<fetch, div, sin, call>>

\* Agent1ProductDiscovery.execute, lines 78-89: _search_product for the next
\* name; after the last one the result has status success
A1Search ==
    /\ req.pc = "a1_search"
    /\ \E shop \in PipeShopResponses, spec \in PipeSpecResponses :
          LET name == req.names[Len(req.a1_products) + 1]
              last == Len(req.a1_products) + 1 = Len(req.names)
          IN  req' = [req EXCEPT !.a1_products = Append(@, SearchProduct(name, shop, spec)),
                                 !.backends = Append(@, [shop |-> shop, spec |-> spec]),
                                 !.a1_status = IF last THEN "success" ELSE @,
                                 !.a1_query = IF last THEN req.user_query ELSE @,
                                 !.pc = IF last THEN "gate" ELSE @]
    /\ UNCHANGED <<fetch, div, sin, call>>

\* a gate that looks at the status only
AdmitStatusOnly(status, products_found) == IF status # "success" THEN 400 ELSE 0

\* compare_products, lines 172-198: HTTP 400 unless discovery succeeded with
\* two products or more (0 lets the request pass); the HTTPException passes
\* the generic guard (lines 233-234)
Admit(status, products_found) ==
    IF status # "success" THEN 400
    ELSE IF products_found < 2 THEN 400
    ELSE 0

Gate ==
    /\ req.pc = "gate"
    /\ req' = IF Admit(req.a1_status, Len(req.a1_products)) # 0
              THEN [req EXCEPT !.pc = "done",
                               !.http = Admit(req.a1_status, Len(req.a1_products))]
              ELSE [req EXCEPT !.pc = "a2", !.products = req.a1_products,
                               !.pi = 1, !.ui = 1]
    /\ UNCHANGED <<fetch, div, sin, call>>

\* Agent2DataRetrieval._process_product: a product without URLs is returned
\* as it came (line 137-139)
A2NoUrls ==
    /\ req.pc = "a2" /\ req.pi <= Len(req.products)
    /\ req.products[req.pi].urls = <<>>
    /\ req' = [req EXCEPT !.pi = @ + 1, !.ui = 1]
    /\ UNCHANGED <<fetch, div, sin, call>>

\* line 157: fetch_page is called for the next URL of the product
A2Fetch ==
    /\ req.pc = "a2" /\ req.pi <= Len(req.products) /\ fetch.pc = "idle"
    /\ req.ui <= Len(req.products[req.pi].urls)
    /\ fetch' = FetchBegin(fetch, PyStr(req.products[req.pi].urls[req.ui]))
    /\ req' = [req EXCEPT !.fetch_calls = @ + 1]
    /\ UNCHANGED <<div, sin, call>>

\* lines 159-202: fetch_page returned; after the last URL of the product the
\* price of the product becomes the best fetched price.  The total of the
\* transport requests is a history kept where it is examined (counting).
A2CollectWith(counting) ==
    /\ req.pc = "a2" /\ fetch.pc = "returned"
    /\ LET p    == RecordFetch(req.products[req.pi], fetch)
           last == req.ui = Len(p.urls)
       IN  req' = [req EXCEPT !.products[req.pi] = IF last THEN FinishProduct(p) ELSE p,
                              !.transport_requests =
                                  IF counting THEN @ + fetch.requests ELSE @,
                              !.pi = IF last THEN @ + 1 ELSE @,
                              !.ui = IF last THEN 1 ELSE @ + 1]
    /\ fetch' = FetchIdle
    /\ UNCHANGED <<div, sin, call>>

A2Collect == A2CollectWith(FALSE)

\* fetch_page at work for the request
A2Attempt == FetchAttemptWith(PipeOutcomes, PipeCodes, PipePrices)

\* fetch_page raised: nothing in Agent 2 catches it, compare_products turns
\* it into HTTP 500 (lines 235-243)
A2Raised ==
    /\ req.pc = "a2" /\ fetch.pc = "raised"
    /\ req' = [req EXCEPT !.pc = "done", !.http = 500]
    /\ fetch' = FetchIdle
    /\ UNCHANGED <<div, sin, call>>

\* an Enricher that reports an error when no page could be fetched
EnricherStatusNeedsFetch(products) ==
    IF products = <<>> THEN "no_products"
    ELSE IF \A i \in 1..Len(products) : products[i].urls_fetched = 0 THEN "error"
    ELSE "success"

\* Agent2DataRetrieval.execute, lines 72-79 and 98-99: the status it returns
EnricherStatus(products) == IF products = <<>> THEN "no_products" ELSE "success"

\* an Enricher that returns without the query it was given
A2DoneQueryLost ==
    /\ req.pc = "a2" /\ req.pi > Len(req.products)
    /\ req' = [req EXCEPT !.pc = "a4_prefs",
                          !.a2_status = IF req.products = <<>> THEN "no_products" ELSE "success",
                          !.a2_query = "", !.pi = 1, !.ui = 1]
    /\ UNCHANGED <<fetch, div, sin, call>>

\* Agent2DataRetrieval.execute returns (lines 98-109) with the user_query of
\* its input (lines 57, 102); compare_products goes on to Agent 4 whatever
\* the status (lines 205-215)
A2Done ==
    /\ req.pc = "a2" /\ req.pi > Len(req.products)
    /\ req' = [req EXCEPT !.pc = "a4_prefs", !.a2_status = EnricherStatus(req.products),
                          !.a2_query = req.a1_query, !.pi = 1, !.ui = 1]
    /\ UNCHANGED <<fetch, div, sin, call>>

\* Agent4SpecExtraction.execute, line 84: _detect_preferences; an empty query
\* asks no oracle
A4Prefs ==
    /\ req.pc = "a4_prefs"
    /\ \E response \in PrefResponses :
          /\ (req.a2_query = "" => response = OracleRaises)
          /\ req' = [req EXCEPT !.pc = "a4_extract", !.pi = 1,
                                !.user_preferences = DetectPreferences(req.a2_query, response),
                                !.oracle_calls = IF req.a2_query = "" THEN @ ELSE @ + 1]
    /\ UNCHANGED <<fetch, div, sin, call>>

\* an extraction loop that asks the oracle again when it raised
A4ExtractRetrying(responses) ==
    /\ req.pc = "a4_extract" /\ req.pi <= Len(req.products)
    /\ \E response \in responses :
          req' = IF response.kind = "raise"
                 THEN [req EXCEPT !.oracle_calls = @ + 1]
                 ELSE [req EXCEPT !.products[req.pi] = ExtractSpecs(@, response),
                                  !.pi = @ + 1, !.answers = Append(@, response),
                                  !.oracle_calls = @ + 1]
    /\ UNCHANGED <<fetch, div, sin, call>>

\* an extraction loop that gives the batch up when the oracle raises
A4ExtractAborting(responses) ==
    /\ req.pc = "a4_extract" /\ req.pi <= Len(req.products)
    /\ \E response \in responses :
          req' = IF response.kind = "raise"
                 THEN [req EXCEPT !.pc = "done", !.http = 500,
                                  !.answers = Append(@, response), !.oracle_calls = @ + 1]
                 ELSE [req EXCEPT !.products[req.pi] = ExtractSpecs(@, response),
                                  !.pi = @ + 1, !.answers = Append(@, response),
                                  !.oracle_calls = @ + 1]
    /\ UNCHANGED <<fetch, div, sin, call>>

\* lines 88-89: _extract_specs for the next product
A4ExtractWith(responses) ==
    /\ req.pc = "a4_extract" /\ req.pi <= Len(req.products)
    /\ \E response \in responses :
          req' = [req EXCEPT !.products[req.pi] = ExtractSpecs(@, response), !.pi = @ + 1,
                             !.answers = Append(@, response), !.oracle_calls = @ + 1]
    /\ UNCHANGED <<fetch, div, sin, call>>

A4Extract == A4ExtractWith(PipeSpecAnswers)

\* lines 93-107: _generate_recommendations and the result of execute; fewer
\* than two products ask no oracle
A4Recommend ==
    /\ req.pc = "a4_extract" /\ req.pi > Len(req.products)
    /\ \E response \in RecResponses :
          /\ (Len(req.products) < 2 => response = OracleRaises)
          /\ req' = [req EXCEPT !.pc = "respond", !.a4_status = "success",
                                !.a4_query = req.a2_query,
                                !.recommendation = GenerateRecommendations(req.products, response),
                                !.rec_kind = IF Len(req.products) < 2 THEN "none" ELSE response.kind,
                                !.oracle_calls = IF Len(req.products) < 2 THEN @ ELSE @ + 1]
    /\ UNCHANGED <<fetch, div, sin, call>>

\* build_comparison_response and the return of compare_products
Respond ==
    /\ req.pc = "respond"
    /\ req' = [req EXCEPT !.pc = "done", !.http = 200,
                          !.response = [i \in 1..Len(req.products) |->
                                           FormatProduct(req.products[i], req.a1_products)]]
    /\ UNCHANGED <<fetch, div, sin, call>>

Init == fetch = FetchIdle /\ div = DivIdle /\ sin = SinIdle /\ req = ReqIdle /\ call = CallIdle

Next ==
    \/ Receive \/ A1Names \/ A1Search \/ Gate
    \/ A2NoUrls \/ A2Fetch \/ A2Attempt \/ A2Collect \/ A2Raised \/ A2Done
    \/ A4Prefs \/ A4Extract \/ A4Recommend \/ Respond

Spec == Init /\ [][Next]_vars

(***************************************************************************)
(* Agent4SpecExtraction.execute on its own: one product, the oracle        *)
(* answering with JSON objects of every shape up to a depth.               *)
(***************************************************************************)

\* bound: the depth of nesting of the oracle's JSON object
MaxDepth == 2

Leaves ==
    {JStr("8GB"), JNum("5"), JBool(TRUE), JNull, JStr("N/A"), JStr("$350"), JStr("~999"),
     JStr("~5 $6"),
     JList(<<JStr("a")>>), JList(<<JObj(<<KV("x", JStr("1"))>>)>>)}

FlatObjects == {JObj(<<>>)} \cup {JObj(<<KV(k, l)>>) : k \in {"Cpu", "price"}, l \in Leaves}

\* the keys of a nested object: a wrapper key and one that is none
NestKeys == {"smartphone", "details"}

Nested(inner) ==
    inner \cup {JObj(<<KV(k, o)>>) : k \in NestKeys, o \in inner}
          \cup {JObj(<<KV("ram", l), KV(k, o)>>) :
                   l \in {JStr("8GB"), JList(<<JStr("a")>>)}, k \in NestKeys, o \in inner}

RECURSIVE Shapes(_)
Shapes(d) == IF d = 0 THEN FlatObjects ELSE Nested(Shapes(d - 1))

NormAnswers ==
    {OracleRaises, OracleEmpty, OracleProse, OracleInvalid}
        \cup {OracleJson(o) : o \in Shapes(MaxDepth)}

NormProducts ==
    {[name |-> "A", urls |-> <<>>, price |-> price, all_prices |-> all,
      fetched |-> <<>>, urls_fetched |-> 0, urls_failed |-> 0,
      specifications |-> <<>>, extraction_status |-> "none"] :
        price \in {None, "", "$6", "~500"}, all \in {<<>>, <<"~450">>}}

NormInit ==
    /\ fetch = FetchIdle /\ div = DivIdle /\ sin = SinIdle /\ call = CallIdle
    /\ \E q \in {"", "best camera phone"}, p \in NormProducts :
          req = [ReqIdle EXCEPT !.pc = "a4_prefs", !.user_query = q, !.a1_query = q,
                               !.a2_query = q, !.products = <<p>>]

NormExtract == A4ExtractWith(NormAnswers)

NormNext == A4Prefs \/ NormExtract \/ A4Recommend

SpecNorm == NormInit /\ [][NormNext]_vars

(***************************************************************************)
(* Claims about the Retriever                                              *)
(***************************************************************************)

Min(a, b) == IF a <= b THEN a ELSE b

NormalizedDomains(results) == {NormalizeDomain(results[i].domain) : i \in 1..Len(results)}

\* a URL returned by both backends
InBothBackends ==
    /\ sin.shop.ok /\ sin.spec.ok
    /\ \E i \in 1..Len(sin.shop.items), j \in 1..Len(sin.spec.items) :
          sin.shop.items[i].link # "" /\ sin.shop.items[i].link = sin.spec.items[j].link

\* C5: search_products(query, n) returns at most n results and no URL twice,
\* whatever the two backends returned.
C5_AtMostNNoDuplicateUrl ==
    div.pc = "returned" =>
        /\ Len(div.out) <= div.n
        /\ \A i, j \in 1..Len(div.out) : i # j => div.out[i].url # div.out[j].url

\* C5 witness: a full answer of n >= 2 results from backends that both
\* returned the same URL, with more than n results in the pool.
C5_Witness ==
    /\ div.pc = "returned" /\ div.n >= 2 /\ Len(div.out) = div.n
    /\ InBothBackends /\ Len(div.results) > div.n

\* C6: the first min(k, n) results returned have pairwise distinct normalized
\* domains, k being the number of normalized domains of the merged pool; with
\* k >= n these are all n results.
C6_FirstPicksDistinctDomains ==
    div.pc = "returned" =>
        LET m == Min(Cardinality(NormalizedDomains(div.results)), div.n)
        IN  /\ Len(div.out) >= m
            /\ \A i, j \in 1..m :
                  i # j => NormalizeDomain(div.out[i].domain) # NormalizeDomain(div.out[j].domain)

\* C6 witness: n = 3 results from a pool of 4 entries in 3 domains.
C6_Witness ==
    /\ div.pc = "returned" /\ div.n = 3 /\ Len(div.out) = 3
    /\ Cardinality(NormalizedDomains(div.results)) = 3
    /\ Len(div.results) = 4

\* C7: the second pass always reaches the return.
C7_DiversifyTerminates == (div.pc = "loop") ~> (div.pc = "returned")

\* C7 witness: the selection returned fewer than n results after the loop ran
\* into its round bound.
C7_Witness ==
    /\ div.pc = "returned" /\ Len(div.out) < div.n
    /\ div.rr > Len(div.results) + div.n

(***************************************************************************)
(* Claims about the Fetcher                                                *)
(***************************************************************************)

\* C1: fetch_page never raises: for every URL value and every behaviour of
\* the transport it returns a record whose status is success or error.
C1_FetchNeverRaises ==
    /\ fetch.pc # "raised"
    /\ fetch.pc = "returned" => fetch.status \in {"success", "error"}

(***************************************************************************)
(* Claims about the pipeline                                               *)
(***************************************************************************)

\* C2: end to end, a price with the rupee sign that the Discoverer recorded
\* for a product is the price in the final specifications of that product,
\* whatever the fetches and the oracle did.
C2_DiscovererPriceSurvives ==
    (req.pc = "done" /\ req.http = 200) =>
        \A i \in 1..Len(req.response) :
            Contains(req.a1_products[i].price, INR) =>
                DictGet(req.response[i].specifications, "price", JNull)
                    = JStr(req.a1_products[i].price)

\* C3: if the price of the product handed to _extract_specs carries the rupee
\* sign, specifications['price'] is that price after the extraction, for the
\* statuses success, partial and failed alike.
C3_KnownInrPriceWins ==
    \A i \in 1..Len(req.products) :
        LET p == req.products[i]
        IN  (p.extraction_status \in {"success", "partial", "failed"} /\ Contains(p.price, INR))
                => DictGet(p.specifications, "price", JNull) = JStr(p.price)

\* the oracle proposed another rupee price and the known one stands
C3_Witness ==
    /\ req.answers = <<OracleJson(JObj(<<KV("price", JStr("~999"))>>))>>
    /\ req.products[1].price = "~500"
    /\ req.products[1].extraction_status = "success"
    /\ DictGet(req.products[1].specifications, "price", JNull) = JStr("~500")

\* C4: after the extraction every value of the specifications of a product is
\* a scalar, never a mapping or a sequence, whatever the shape of the
\* oracle's JSON object.
C4_SpecificationsAreScalar ==
    \A i \in 1..Len(req.products) :
        \A j \in 1..Len(req.products[i].specifications) :
            IsScalar(req.products[i].specifications[j].v)

\* a wrapper inside a single-key wrapping, holding a list next to a value
C4_Witness ==
    /\ req.answers =
          <<OracleJson(JObj(<<KV("details",
                JObj(<<KV("ram", JList(<<JStr("a")>>)),
                       KV("smartphone", JObj(<<KV("Cpu", JStr("8GB"))>>))>>))>>))>>
    /\ req.products[1].extraction_status = "success"
    /\ DictKeys(req.products[1].specifications) \cap {"processor"} # {}

\* C8: a failing backend counts as an empty list for that backend only: the
\* product is the one built from the other backend's diversified results,
\* it has no candidates if both failed, and discovery ends with success.
C8_BackendFailuresIsolated ==
    /\ req.pc \in {"a1_search", "gate"} => \A i \in 1..Len(req.a1_products) :
          LET b == req.backends[i]
              name == req.a1_products[i].name
          IN  /\ (~b.shop.ok /\ ~b.spec.ok) => req.a1_products[i].urls = <<>>
              /\ (~b.shop.ok /\ b.spec.ok) =>
                    req.a1_products[i] =
                        ProductOf(name, DiversifyBySource(
                            MergedPool(<<>>, SearchSpecs(b.spec)), NUM_RESULTS))
              /\ (b.shop.ok /\ ~b.spec.ok) =>
                    req.a1_products[i] =
                        ProductOf(name, DiversifyBySource(
                            MergedPool(SearchShopping(b.shop, NUM_RESULTS + 2), <<>>),
                            NUM_RESULTS))
    /\ (req.pc \notin {"idle", "a1_llm", "a1_search"} /\ req.names # <<>>) =>
          (req.a1_status = "success" /\ Len(req.a1_products) = Len(req.names))

\* both backends failed for the first product, one of them for the second
C8_Witness ==
    /\ req.pc = "gate" /\ req.a1_status = "success" /\ Len(req.a1_products) = 2
    /\ ~req.backends[1].shop.ok /\ ~req.backends[1].spec.ok
    /\ req.a1_products[1].urls = <<>>
    /\ ~req.backends[2].shop.ok /\ req.backends[2].spec.ok
    /\ Len(req.a1_products[2].urls) = 1

\* C9: the status of discovery is no_products exactly when neither the oracle
\* nor the splitter yields a name, else error or success; the products are
\* empty unless it is success; a failure inside discovery never becomes the
\* failure of the request.
C9_DiscoveryStatus ==
    req.a1_status # "none" =>
        /\ req.a1_status \in {"success", "no_products", "error"}
        /\ req.pc = "gate" =>
              ((req.a1_status = "no_products") <=>
                  (~req.oracle_found
                      /\ ExtractProductsRegex(req.user_query).product_names = <<>>))
        /\ (req.a1_status # "success" => req.a1_products = <<>>)
        /\ (req.a1_status = "success" => req.a1_products # <<>>)
        /\ (req.http = 500 => req.fetch_calls > 0)

\* the oracle gave no name, the splitter did
C9_Witness ==
    /\ req.a1_status = "success" /\ ~req.oracle_found
    /\ Len(req.a1_products) = 2

\* C10: when the Discoverer returns fewer than two products the request ends
\* with HTTP 400, no page is fetched and the Normalizer asks no oracle.
C10_FewerThanTwoIs400 ==
    (req.a1_status # "none" /\ Len(req.a1_products) < 2) =>
        /\ req.pc \in {"gate", "done"}
        /\ req.fetch_calls = 0 /\ req.oracle_calls = 1
        /\ req.a2_status = "none" /\ req.a4_status = "none"
        /\ (req.pc = "done" => req.http = 400)

\* exactly one product was discovered
C10_Witness ==
    /\ req.pc = "done" /\ req.http = 400
    /\ req.a1_status = "success" /\ Len(req.a1_products) = 1

(***************************************************************************)
(* The splitter on its own: queries of a few words, the oracle answering   *)
(* the Discoverer in every way.                                            *)
(***************************************************************************)

\* bound: the number of words of a query
MaxWords == 3

QueryWords == {"compare", "vivo", "y73", "vs", "OR", "tv"}

SplitQueries == {Join(ws) : ws \in SeqsUpTo(QueryWords, MaxWords)}

SplitReceive ==
    /\ req.pc = "idle"
    /\ \E q \in SplitQueries : req' = [ReqIdle EXCEPT !.pc = "a1_llm", !.user_query = q]
    /\ UNCHANGED <<fetch, div, sin, call>>

\* SearchService._detect_category, lines 130-146
category_keywords ==
    <<[type |-> "toothpaste",
       keywords |-> {"toothpaste", "colgate", "pepsodent", "sensodyne", "closeup", "oral-b",
                     "dabur red", "patanjali dant"}],
      [type |-> "smartphone",
       keywords |-> {"phone", "iphone", "galaxy", "pixel", "oneplus", "redmi", "realme",
                     "vivo", "oppo", "poco"}],
      [type |-> "laptop",
       keywords |-> {"laptop", "macbook", "thinkpad", "xps", "zenbook", "notebook"}],
      [type |-> "fmcg",
       keywords |-> {"soap", "shampoo", "detergent", "cream", "lotion", "face wash",
                     "body wash"}]>>

DetectCategory(query) ==
    LET q == Lower(query)
        hits == {i \in 1..Len(category_keywords) :
                    \E kw \in category_keywords[i].keywords : Contains(q, kw)}
    IN  IF hits = {} THEN "general"
        ELSE category_keywords[CHOOSE i \in hits : \A j \in hits : i <= j].type

\* the Retriever detects the category of the same text
SplitCategory ==
    /\ req.pc # "idle" /\ call.pc = "idle"
    /\ call' = [pc |-> "category", category |-> DetectCategory(req.user_query)]
    /\ UNCHANGED <<fetch, div, sin, req>>

SplitNext == SplitReceive \/ A1Names \/ SplitCategory

SpecSplit == Init /\ [][SplitNext]_vars

\* the fragments of a list of words between its connectives, every
\* connective word being a separator
RECURSIVE Fragments(_, _, _)
Fragments(words, part, parts) ==
    IF words = <<>> THEN Append(parts, part)
    ELSE IF Lower(Head(words)) \in connectives
         THEN Fragments(Tail(words), <<>>, Append(parts, part))
         ELSE Fragments(Tail(words), Append(part, Head(words)), parts)

FragmentNames(query) ==
    LET parts == Fragments(Words(query), <<>>, <<>>)
        cleaned == [i \in 1..Len(parts) |-> CleanPart(parts[i])]
    IN  SelectSeq(cleaned, LAMBDA c : Len(c) >= 3)

HasConnective(query) == \E i \in 1..Len(Words(query)) : Lower(Words(query)[i]) \in connectives

\* C11: when the oracle yields no names the Discoverer's names are the
\* fragments of the query between its connectives, fillers removed, in order,
\* those of three characters or more; a query without a connective gives
\* exactly one name.
C11_SplitterFragments ==
    (req.pc \in {"a1_search", "gate"} /\ ~req.oracle_found) =>
        /\ req.names = FragmentNames(req.user_query)
        /\ (~HasConnective(req.user_query) => Len(req.names) = 1)

\* C12: if every fetch of every product ended with status error, the
\* Enricher still returns success with urls_fetched = 0 for each product,
\* the Normalizer still runs for every product and returns success, and the
\* request ends with a success response.
AllFetchesFailed ==
    /\ req.a2_status # "none"
    /\ \A i \in 1..Len(req.products) :
          req.products[i].urls_fetched = 0
              /\ req.products[i].urls_failed = Len(req.products[i].urls)

C12_FetchFailuresNonFatal ==
    AllFetchesFailed =>
        /\ req.a2_status = "success"
        /\ req.http \in {0, 200}
        /\ req.pc = "done" =>
              /\ req.http = 200 /\ req.a4_status = "success"
              /\ Len(req.response) = Len(req.products)
              /\ \A i \in 1..Len(req.products) :
                    req.products[i].extraction_status \in {"success", "partial", "failed"}

\* both products had a page to fetch and every fetch failed
C12_Witness ==
    /\ req.pc = "done" /\ req.http = 200 /\ AllFetchesFailed
    /\ \A i \in 1..Len(req.products) : req.products[i].urls_failed >= 1
    /\ req.fetch_calls >= 2

\* C13: when the answer of the comparison oracle cannot be parsed (it raises,
\* holds no JSON object or an invalid one) or when fewer than two products are
\* given, the recommendation is the fallback that names the first product as
\* priority winner and overall winner.
C13_ComparisonFallback ==
    (req.a4_status = "success"
        /\ (Len(req.products) < 2 \/ req.rec_kind \in {"raise", "empty", "prose", "invalid"}))
        => req.recommendation = FallbackRecommendation(req.products)

(***************************************************************************)
(* _normalize_keys on its own, applied to a flat mapping and to its result *)
(***************************************************************************)

\* bound: the number of items of the mapping
MaxKeys == 2

KeyNames ==
    {"cpu", "CPU", "Screen Size", "processor", "memory", "ram", "display", "display_size",
     "os", "rom"}

KeyValues == {JStr("x"), JStr(""), JNull, JNum("5")}

\* the flat mappings: no key twice
KeyMappings ==
    {m \in SeqsUpTo({KV(k, v) : k \in KeyNames, v \in KeyValues}, MaxKeys) :
        \A i, j \in 1..Len(m) : m[i].k = m[j].k => i = j}

KeysInit ==
    /\ fetch = FetchIdle /\ div = DivIdle /\ sin = SinIdle /\ req = ReqIdle
    /\ \E m \in KeyMappings : call = [pc |-> "ready", m |-> m, once |-> <<>>, twice |-> <<>>]

KeysOnce ==
    /\ call.pc = "ready"
    /\ call' = [call EXCEPT !.pc = "once", !.once = NormalizeKeys(call.m)]
    /\ UNCHANGED <<fetch, div, sin, req>>

KeysTwice ==
    /\ call.pc = "once"
    /\ call' = [call EXCEPT !.pc = "twice", !.twice = NormalizeKeys(call.once)]
    /\ UNCHANGED <<fetch, div, sin, req>>

KeysNext == KeysOnce \/ KeysTwice

SpecKeys == KeysInit /\ [][KeysNext]_vars

\* C14: _normalize_keys gives a mapping for every flat mapping, applying it
\* to its own result changes nothing, and no key of a result is a synonym of
\* the table.
C14_NormalizeKeysIdempotent ==
    /\ call.pc \in {"once", "twice"} =>
          /\ \A i, j \in 1..Len(call.once) : call.once[i].k = call.once[j].k => i = j
          /\ \A i \in 1..Len(call.once) : NormalizeKey(call.once[i].k) = call.once[i].k
    /\ call.pc = "twice" => call.twice = call.once

\* a synonym and its canonical key in one mapping
C14_Witness ==
    /\ call.pc = "twice"
    /\ call.m = <<KV("CPU", JStr("x")), KV("processor", JNum("5"))>>
    /\ call.twice = <<KV("processor", JNum("5"))>>

\* the price of the oracle's answer as _handle_price reads it: the value at
\* the key 'price' of the parsed, flattened and cleaned object
ModelPrice(response) == DictGet(ParseSpecs(response), "price", JStr(""))

CarriesUSD(v) == v.t = "str" /\ Contains(v.s, USD)

CarriesINR(v) == v.t = "str" /\ Contains(v.s, INR)

\* C15: in the price reconciliation of a successful extraction, a model price
\* carrying the dollar sign ends as a string carrying the rupee sign, and a
\* model price that already carries the rupee sign (also next to a dollar
\* sign) is never converted: the final price is that model price, or the
\* known rupee price of the product.
C15_RupeePriceNeverConverted ==
    \A i \in 1..Len(req.products) :
        LET p     == req.products[i]
            mp    == ModelPrice(req.answers[i])
            final == DictGet(p.specifications, "price", JNull)
        IN  (i <= Len(req.answers) /\ p.extraction_status = "success") =>
                /\ CarriesUSD(mp) => CarriesINR(final)
                /\ CarriesINR(mp) => final \in {mp, JStr(p.price)}

(***************************************************************************)
(* The parse sites of the oracle's answer: the text and the pattern        *)
(***************************************************************************)

\* the text of a JSON value inside an answer of the oracle
RECURSIVE JsonText(_), JsonItems(_, _)
JsonText(v) ==
    CASE v.t = "str" -> "\"" \o v.s \o "\""
      [] v.t = "num" -> v.s
      [] v.t = "bool" -> IF v.s = "True" THEN "true" ELSE "false"
      [] v.t = "null" -> "null"
      [] v.t = "obj" -> "{" \o JsonItems(v.kv, TRUE) \o "}"
      [] OTHER -> "[" \o JsonItems(v.kv, FALSE) \o "]"

JsonItems(kv, keyed) ==
    IF kv = <<>> THEN ""
    ELSE (IF keyed THEN "\"" \o Head(kv).k \o "\":" ELSE "") \o JsonText(Head(kv).v)
             \o (IF Len(kv) > 1 THEN "," ELSE "") \o JsonItems(Tail(kv), keyed)

IndicesOf(text, c) == {i \in 1..Len(text) : Slice(text, i, i) = c}

\* re.search(r'\{[\s\S]*?\}', text): from the first "{" to the first "}"
\* after it; None without a match
LazyBraceMatch(text) ==
    LET opens == IndicesOf(text, "{")
        i == CHOOSE x \in opens : \A y \in opens : x <= y
        closes == {j \in IndicesOf(text, "}") : j > i}
    IN  IF opens = {} \/ closes = {} THEN None
        ELSE Slice(text, i, CHOOSE x \in closes : \A y \in closes : x <= y)

\* re.search(r'\{[\s\S]*\}', text): from the first "{" to the last "}" of
\* the text; None without a match
GreedyBraceMatch(text) ==
    LET opens == IndicesOf(text, "{")
        i == CHOOSE x \in opens : \A y \in opens : x <= y
        closes == {j \in IndicesOf(text, "}") : j > i}
    IN  IF opens = {} \/ closes = {} THEN None
        ELSE Slice(text, i, CHOOSE x \in closes : \A y \in closes : y <= x)

\* the number of objects an answer of the oracle holds at most
MaxAnswerObjects == 2

AnswerObjects ==
    LET names  == KV("product_names", JList(<<JStr("A"), JStr("B")>>))
        winner == KV("overall_winner", JStr("B"))
        price  == KV("price", JStr("~9"))
    IN  {JObj(<<names>>), JObj(<<winner>>), JObj(<<price>>),
         JObj(<<names, KV("meta", JObj(<<>>))>>),
         JObj(<<KV("specs", JObj(<<price>>)), winner>>)}

RECURSIVE JoinTexts(_)
JoinTexts(objs) ==
    IF objs = <<>> THEN ""
    ELSE JsonText(Head(objs)) \o (IF Len(objs) > 1 THEN " " ELSE "") \o JoinTexts(Tail(objs))

\* the answers: objects in a row, after some words or none, before some
\* words, a lone closing brace, or nothing
AnswerTexts ==
    {pre \o JoinTexts(objs) \o post :
        pre \in {"", "Sure: "}, objs \in SeqsUpTo(AnswerObjects, MaxAnswerObjects),
        post \in {"", " ok", " }"}}

\* json.loads of a part of an answer: the object the part is the text of,
\* an error for any other part
Loads(part) ==
    IF \E o \in AnswerObjects : JsonText(o) = part
    THEN OracleJson(CHOOSE o \in AnswerObjects : JsonText(o) = part)
    ELSE OracleInvalid

\* what a parse site makes of the text, match being the part its pattern
\* selects
ReadAnswer(text, match) ==
    IF text = "" THEN OracleEmpty
    ELSE IF match = None THEN OracleProse
    ELSE Loads(match)

\* the products of the comparison
ComparedProducts == <<ProductOf("A", <<>>), ProductOf("B", <<>>)>>

ParseInit ==
    /\ fetch = FetchIdle /\ div = DivIdle /\ sin = SinIdle /\ req = ReqIdle
    /\ \E text \in AnswerTexts :
          call = [pc |-> "answered", text |-> text, names |-> NoNames, specs |-> <<>>,
                  recommendation |-> FallbackRecommendation(ComparedProducts)]

\* _extract_products_llm, lines 118-130
ParseNames ==
    /\ call.pc = "answered"
    /\ call' = [call EXCEPT !.pc = "names",
                  !.names = ExtractProductsLlm(ReadAnswer(call.text, LazyBraceMatch(call.text)))]
    /\ UNCHANGED <<fetch, div, sin, req>>

\* _parse_specs, lines 365-400
ParseSpecsText ==
    /\ call.pc = "names"
    /\ call' = [call EXCEPT !.pc = "specs",
                  !.specs = ParseSpecs(ReadAnswer(call.text, GreedyBraceMatch(call.text)))]
    /\ UNCHANGED <<fetch, div, sin, req>>

\* _generate_recommendations, lines 542-555
ParseRecommendation ==
    /\ call.pc = "specs"
    /\ call' = [call EXCEPT !.pc = "recommended",
                  !.recommendation =
                      GenerateRecommendations(ComparedProducts,
                          ReadAnswer(call.text, GreedyBraceMatch(call.text)))]
    /\ UNCHANGED <<fetch, div, sin, req>>

ParseNext == ParseNames \/ ParseSpecsText \/ ParseRecommendation

SpecParse == ParseInit /\ [][ParseNext]_vars

\* the end of the object opened at i - 1, depth braces being open at i; 0 if
\* it is never closed
RECURSIVE BalancedEnd(_, _, _)
BalancedEnd(text, i, depth) ==
    IF i > Len(text) THEN 0
    ELSE IF Slice(text, i, i) = "{" THEN BalancedEnd(text, i + 1, depth + 1)
    ELSE IF Slice(text, i, i) = "}"
         THEN (IF depth = 1 THEN i ELSE BalancedEnd(text, i + 1, depth - 1))
    ELSE BalancedEnd(text, i + 1, depth)

\* the first balanced brace-delimited part of a text
FirstBalancedObject(text) ==
    LET opens == IndicesOf(text, "{")
        i == CHOOSE x \in opens : \A y \in opens : x <= y
    IN  IF opens = {} \/ BalancedEnd(text, i + 1, 1) = 0 THEN None
        ELSE Slice(text, i, BalancedEnd(text, i + 1, 1))

\* C16: each parse site of an answer of the oracle (product names,
\* specifications, comparison) reads the first balanced brace-delimited
\* object of the text, also when that object holds nested objects and when
\* braces or a second object follow it.
C16_FirstBalancedObjectParsed ==
    LET first == ReadAnswer(call.text, FirstBalancedObject(call.text))
    IN  /\ call.pc \in {"names", "specs", "recommended"} =>
              call.names = ExtractProductsLlm(first)
        /\ call.pc \in {"specs", "recommended"} => call.specs = ParseSpecs(first)
        /\ call.pc = "recommended" =>
              call.recommendation = GenerateRecommendations(ComparedProducts, first)

(***************************************************************************)
(* Agent2DataRetrieval.execute and Agent4SpecExtraction.execute on one     *)
(* product: pages with prices in several currencies.                       *)
(***************************************************************************)

\* bound: the URLs of the products of a request
MaxUrls == 3

EnrichUrls ==
    <<"https://www.gsmarena.com/p1", "https://www.91mobiles.com/p2", "https://example.com/p3">>

EnrichProduct(name, n, price) ==
    [ProductOf(name, <<>>) EXCEPT !.urls = Take(EnrichUrls, n), !.price = price]

\* one product or two, with MaxUrls URLs at most between them
EnrichProducts ==
    {<<EnrichProduct("A", n, price)>> : n \in 0..MaxUrls, price \in {None, "~500"}}
        \cup {<<EnrichProduct("A", n, None), EnrichProduct("B", m, None)>> :
                 n \in 0..MaxUrls, m \in 0..MaxUrls}

EnrichPrices == {"", "$6", "~700"}

EnrichAnswers ==
    {OracleRaises, OracleJson(JObj(<<KV("ram", JStr("8GB"))>>)),
     OracleJson(JObj(<<KV("price", JStr("$350"))>>))}

EnrichInit ==
    /\ fetch = FetchIdle /\ div = DivIdle /\ sin = SinIdle /\ call = CallIdle
    /\ \E ps \in EnrichProducts :
          /\ Len(ps[1].urls) + (IF Len(ps) > 1 THEN Len(ps[2].urls) ELSE 0) <= MaxUrls
          /\ req = [ReqIdle EXCEPT !.pc = "a2", !.user_query = "A vs B", !.a1_query = "A vs B",
                                   !.a1_status = "success", !.a1_products = ps, !.products = ps]

EnrichAttempt == FetchAttemptWith(Outcomes, PipeCodes, EnrichPrices)

EnrichCollect == A2CollectWith(TRUE)

EnrichExtract == A4ExtractWith(EnrichAnswers)

EnrichNext ==
    \/ A2NoUrls \/ A2Fetch \/ EnrichAttempt \/ EnrichCollect \/ A2Done
    \/ A4Prefs \/ EnrichExtract \/ A4Recommend

SpecEnrich == EnrichInit /\ [][EnrichNext]_vars

\* the rupee prices of the pages fetched for a product
FetchedINR(product) ==
    {product.fetched[j].price : j \in {k \in 1..Len(product.fetched) :
                                            HasINR(product.fetched[k].price)}}

\* C17: if a page fetched for a product carries a rupee price, the price of
\* the product after the Enricher is a fetched rupee price, and so is the
\* price of its specifications after the Normalizer, whatever the price of
\* the pages fetched before it.
C17_FetchedRupeePriceWins ==
    \A i \in 1..Len(req.products) :
        LET p == req.products[i]
        IN  (req.pc \in {"a4_prefs", "a4_extract", "respond"} /\ FetchedINR(p) # {}) =>
                /\ p.price \in FetchedINR(p)
                /\ p.extraction_status # "none" =>
                      DictGet(p.specifications, "price", JNull) \in
                          {JStr(x) : x \in FetchedINR(p)}

\* C18: one call of fetch_page issues at most MAX_RETRIES transport requests
\* whatever the outcomes of its attempts, and a request whose products have
\* at most NUM_RESULTS candidate pages each issues at most
\* products x NUM_RESULTS x MAX_RETRIES transport requests.
C18_TransportRequestsBounded ==
    /\ fetch.requests <= MAX_RETRIES
    /\ (\A i \in 1..Len(req.products) : Len(req.products[i].urls) <= NUM_RESULTS) =>
          req.transport_requests + fetch.requests
              <= Len(req.products) * NUM_RESULTS * MAX_RETRIES

\* the Enricher is through with one product of NUM_RESULTS pages, each
\* fetched with MAX_RETRIES requests
C18_Witness ==
    /\ req.pc = "a4_prefs" /\ Len(req.products) = 1
    /\ Len(req.products[1].urls) = NUM_RESULTS
    /\ req.transport_requests = NUM_RESULTS * MAX_RETRIES

\* the attempts of the fetch that ended in a hard failure: an exception of
\* the transport or an HTTP error
HardFailures(log) ==
    {i \in 1..Len(log) : log[i].outcome \in {"timeout", "connection", "challenge", "http"}}

\* the fetch ended in an error after a failure the loop retries
EndedOnRetriedFailure(f) ==
    /\ f.pc = "returned" /\ f.status = "error" /\ f.log # <<>>
    /\ LET l == f.log[Len(f.log)]
       IN  \/ l.outcome \in {"timeout", "connection", "challenge"}
           \/ l.outcome = "http" /\ l.code \in HttpRetryCodes

\* C19: an attempt that got a blocked body is followed by an attempt over the
\* anti-blocking transport, and blocked bodies do not use up the attempts: a
\* fetch does not end in error on a blocked body, and ends in error on a
\* failure it retries only after MAX_RETRIES hard failures.
C19_BlockedNotCounted ==
    /\ \A i \in 1..(Len(fetch.log) - 1) :
          fetch.log[i].outcome = "blocked" => fetch.log[i + 1].transport = "cloudscraper"
    /\ (fetch.pc = "returned" /\ fetch.status = "error" /\ fetch.log # <<>>) =>
          fetch.log[Len(fetch.log)].outcome # "blocked"
    /\ EndedOnRetriedFailure(fetch) =>
          Cardinality(HardFailures(fetch.log)) = MAX_RETRIES

\* the attempts of the fetch that make the loop escalate: a blocked body, or
\* an HTTP error 403, 429 or 503
Escalating(l) == l.outcome = "blocked" \/ (l.outcome = "http" /\ l.code \in HttpRetryCodes)

\* the domain of the URL of the fetch is a protected one
ProtectedUrl(f) == \E p \in protected_domains : Contains(Lower(UrlNetloc(f.url.text)), p)

\* C20: within one fetch an attempt uses the plain transport only if the
\* domain of the URL is not protected and no earlier attempt got a blocked
\* body or an HTTP 403, 429 or 503; every attempt at a protected domain uses
\* the anti-blocking transport; and no attempt after one over the
\* anti-blocking transport uses the plain one.
C20_TransportChoice ==
    fetch.log # <<>> =>
        /\ \A i \in 1..Len(fetch.log) :
              fetch.log[i].transport = "requests" =>
                  /\ ~ProtectedUrl(fetch)
                  /\ \A j \in 1..(i - 1) : ~Escalating(fetch.log[j])
        /\ ProtectedUrl(fetch) =>
              \A i \in 1..Len(fetch.log) : fetch.log[i].transport = "cloudscraper"
        /\ \A i, j \in 1..Len(fetch.log) :
              (i < j /\ fetch.log[i].transport = "cloudscraper")
                  => fetch.log[j].transport = "cloudscraper"

\* a fetch at a domain that is not protected went over the plain transport
\* twice, then got HTTP 429 and made its third attempt over the other one
C20_Witness ==
    /\ ~ProtectedUrl(fetch) /\ Len(fetch.log) = MAX_RETRIES
    /\ fetch.log[1].transport = "requests" /\ fetch.log[1].outcome = "timeout"
    /\ fetch.log[2].transport = "requests" /\ fetch.log[2].outcome = "http"
    /\ fetch.log[2].code = 429
    /\ fetch.log[3].transport = "cloudscraper"

\* the reason an error record gives for a fetch that ended on outcome l
SpecificReason(f, l) ==
    \/ l.outcome = "timeout" /\ f.error = "Request timeout"
    \/ l.outcome = "connection" /\ f.error = "Connection error"
    \/ l.outcome = "challenge" /\ f.error = "Cloudflare protection"
    \/ l.outcome = "http" /\ f.error = "HTTP error" /\ f.http_status = l.code

\* C21: every error record fetch_page returns names the failure that ended
\* the fetch, a timeout, a connection error, a challenge failure or the HTTP
\* status code, whatever the outcomes of the attempts were.
C21_ErrorCarriesReason ==
    (fetch.pc = "returned" /\ fetch.status = "error" /\ fetch.log # <<>>) =>
        SpecificReason(fetch, fetch.log[Len(fetch.log)])

\* C22: while one query is served a random delay lies between any two
\* consecutive transport requests: between two attempts at one URL, and
\* between the last request for one URL and the first request for the next
\* URL.  log[i].delays is the number of delays of the fetch made before its
\* i-th request; no delay is made between two calls of fetch_page.
C22_DelayBetweenRequests ==
    \A i \in 1..Len(fetch.log) :
        /\ i > 1 => fetch.log[i].delays > fetch.log[i - 1].delays
        /\ (i = 1 /\ req.transport_requests > 0) => fetch.log[i].delays > 0

(***************************************************************************)
(* SearchService._diversify_by_source on its own: pools of one large group *)
(* and groups of one result.                                               *)
(***************************************************************************)

\* bounds: the results of the large group, the groups of one result, and
\* the number of results asked for
MaxGroup == 6
MaxSingles == 3
MaxSlots == 9

SingleDomains == <<"croma.com", "gsmarena.com", "91mobiles.com", "smartprix.com">>

PoolEntry(domain, i) ==
    [url |-> "https://" \o domain \o "/" \o IntToStr(i), domain |-> domain, priority |-> 5]

Singles(k) == [i \in 1..k |-> PoolEntry(SingleDomains[i], 0)]

Group(domain, m) == [i \in 1..m |-> PoolEntry(domain, i)]

\* the large group comes first in the priority order (amazon.in) or last
DivPools ==
    {Group("amazon.in", m) \o Singles(k) : m \in 0..MaxGroup, k \in 0..MaxSingles}
        \cup {Singles(k) \o Group("vijaysales.com", m) : m \in 0..MaxGroup, k \in 0..MaxSingles}

DiversifyInit ==
    /\ fetch = FetchIdle /\ div = DivIdle /\ sin = SinIdle /\ req = ReqIdle
    /\ \E results \in DivPools, n \in 1..MaxSlots :
          call = [pc |-> "pool", results |-> results, n |-> n]

\* _diversify_by_source(results, num_results) up to the second pass
DiversifyStart ==
    /\ div.pc = "idle" /\ call.pc = "pool"
    /\ div' = DivBegin(call.results, call.n)
    /\ UNCHANGED <<fetch, sin, req, call>>

DiversifyNext == DiversifyStart \/ DivRound

SpecDiversify == DiversifyInit /\ [][DiversifyNext]_vars

\* C23: _diversify_by_source fills every slot it can: for a pool of results
\* with distinct URLs it returns min(n, size of the pool) results, whatever
\* the sizes of the groups.
C23_AllSlotsFilled ==
    div.pc = "returned" => Len(div.out) = Min(div.n, Len(div.results))

\* a best value exists, and the pool entry e carries it or a value of its
\* own: an entry of the specification search has none of its own
CarriesBest(best, own, from_search) ==
    best # None => (Truthy(own) /\ (from_search => own = best))

\* C24: in the merged pool, when the price search gave a best price (the
\* price of its first result carrying the rupee sign), every entry without a
\* price of its own carries the best price, an entry of the specification
\* search as well as an entry of the price search whose own price is empty;
\* likewise for the image and the rating.
C24_BestValuesAttached ==
    div.pc # "idle" =>
        LET shopping == SearchShopping(sin.shop, sin.n + 2)
        IN  \A i \in 1..Len(div.results) :
                LET e == div.results[i]
                    s == e.api_source = "search"
                IN  /\ CarriesBest(BestPrice(shopping), e.price, s)
                    /\ CarriesBest(BestImage(shopping), e.image, s)
                    /\ CarriesBest(BestRating(shopping), e.rating, s)

\* C25: the category the splitter of the Discoverer detects for a query is
\* the category _detect_category of the Retriever infers from the same text.
C25_SameCategoryTable ==
    (req.pc = "a1_search" /\ ~req.oracle_found /\ call.pc = "category") =>
        req.product_type = call.category

\* C26: rule (c) of the price reconciliation: when the known price of the
\* product does not carry the rupee sign and the price of the model does not
\* carry the dollar sign, the first alternate price observation carrying the
\* rupee sign becomes the final price, whether the model gave no price, a
\* price in no currency or a price in rupees.
C26_AlternatePriceWins ==
    \A i \in 1..Len(req.products) :
        LET p  == req.products[i]
            mp == ModelPrice(req.answers[i])
        IN  (/\ i <= Len(req.answers) /\ p.extraction_status = "success"
             /\ ~HasINR(p.price) /\ ~CarriesUSD(mp) /\ FirstINR(p.all_prices) # None)
                => DictGet(p.specifications, "price", JNull) = JStr(FirstINR(p.all_prices))

\* the status the claim gives a product for an answer of the oracle
StatusFor(response) ==
    IF response.kind = "raise" THEN "failed"
    ELSE IF ParseSpecs(response) = <<>> THEN "partial"
    ELSE "success"

\* C27 as stated: after the Normalizer the extraction_status of a product is
\* failed exactly when the extraction raised, partial exactly when the oracle
\* answered and parsing and cleaning left no attribute, success otherwise,
\* and the specifications of a partial or failed product are the
\* product-name stub.
C27_StatusAndStubOnly ==
    \A i \in 1..Len(req.answers) :
        LET p == req.products[i]
        IN  /\ p.extraction_status = StatusFor(req.answers[i])
            /\ p.extraction_status \in {"partial", "failed"} =>
                  p.specifications = <<KV("product_name", JStr(p.name))>>

\* C27 amended: the same statuses, and the specifications of a partial or
\* failed product are the product-name stub, followed by the known price of
\* the product when that price carries the rupee sign.
C27_StatusAndStub ==
    \A i \in 1..Len(req.answers) :
        LET p == req.products[i]
        IN  /\ p.extraction_status = StatusFor(req.answers[i])
            /\ p.extraction_status \in {"partial", "failed"} =>
                  p.specifications =
                      IF HasINR(p.price)
                      THEN <<KV("product_name", JStr(p.name)), KV("price", JStr(p.price))>>
                      ELSE <<KV("product_name", JStr(p.name))>>

\* the oracle raised for a product whose known price is in rupees
C27_Witness ==
    /\ req.answers = <<OracleRaises>>
    /\ req.products[1].price = "~500"
    /\ req.products[1].extraction_status = "failed"
    /\ Len(req.products[1].specifications) = 2

\* the product as it was handed to _extract_specs
BeforeExtraction(product) ==
    [product EXCEPT !.specifications = <<>>, !.extraction_status = "none"]

\* C28: a failed extraction stays in its product: once the Normalizer has
\* asked the oracle for a product, it asks for every later product and
\* returns success, the request ends with 200, and the specifications and
\* the extraction_status of each product are those its own answer gives,
\* whatever the answers for the other products were.
C28_ExtractionFailureContained ==
    /\ (req.pc = "respond" \/ (req.pc = "done" /\ req.answers # <<>>)) =>
          /\ req.a4_status = "success" /\ Len(req.answers) = Len(req.products)
          /\ req.pc = "done" => req.http = 200
    /\ req.pc = "respond" =>
          \A j \in 1..Len(req.answers) :
              req.products[j] = ExtractSpecs(BeforeExtraction(req.products[j]), req.answers[j])

\* the oracle raised for the first product and answered for the second
C28_Witness ==
    /\ req.pc = "done" /\ req.http = 200 /\ Len(req.products) = 2
    /\ req.answers[1] = OracleRaises /\ req.answers[2].kind = "json"
    /\ req.products[1].extraction_status = "failed"
    /\ req.products[2].extraction_status = "success"

\* C29: while one query is served the oracle is asked once for the product
\* names, at most once for the preferences, once for each product's
\* specifications and at most once for the comparison, never a second time
\* after a failure: at most N + 3 calls for N products.
C29_OracleCallsOneShot ==
    /\ req.pc \in {"a1_search", "gate", "a2", "a4_prefs"} => req.oracle_calls = 1
    /\ req.pc = "a4_extract" =>
          /\ Len(req.answers) = req.pi - 1
          /\ req.oracle_calls - Len(req.answers) \in {1, 2}
    /\ req.pc = "respond" =>
          /\ Len(req.answers) = Len(req.products)
          /\ req.oracle_calls - Len(req.answers) \in {1, 2, 3}
    /\ req.oracle_calls <= Len(req.a1_products) + 3

\* every call failed and none was repeated: the names came from the
\* splitter, the comparison is the fallback, N + 3 calls were made
C29_Witness ==
    /\ req.pc = "done" /\ req.http = 200 /\ ~req.oracle_found
    /\ \A i \in 1..Len(req.answers) : req.answers[i] = OracleRaises
    /\ req.rec_kind = "raise"
    /\ req.oracle_calls = Len(req.products) + 3

(***************************************************************************)
(* The order of the stages of compare_products (main.py, lines 166-231).   *)
(***************************************************************************)

\* a step that calls the search backends (agent1, line 173)
SearchCallIssued == Len(req'.backends) > Len(req.backends)

\* a step that calls fetch_page (agent2, line 157) or sends a transport request
PageFetchIssued ==
    \/ req'.fetch_calls > req.fetch_calls
    \/ fetch'.requests > fetch.requests

\* Agent4SpecExtraction.execute has been entered (main.py, line 215)
NormalizerStarted ==
    \/ req.pc \in {"a4_prefs", "a4_extract", "respond"}
    \/ req.pc = "done" /\ req.http = 200

\* the user_query of the results the stages have returned so far
QueryCarried ==
    /\ req.a1_status # "none" => req.a1_query = req.user_query
    /\ req.a2_status # "none" => req.a2_query = req.user_query
    /\ req.a4_status # "none" => req.a4_query = req.user_query

\* C30: the stages run strictly forward within one request: a search-backend
\* call is made only while no page fetch has been issued, a page fetch only
\* while no spec-extraction oracle call has been made, neither of them once
\* the Normalizer has started, and the result of every stage carries the
\* user's query unchanged
C30_StagesRunForward ==
    [][ /\ SearchCallIssued =>
              req.fetch_calls = 0 /\ fetch.requests = 0 /\ req.answers = <<>>
        /\ PageFetchIssued => req.answers = <<>>
        /\ NormalizerStarted => ~SearchCallIssued /\ ~PageFetchIssued
        /\ req.pc # "idle" => req'.user_query = req.user_query
        /\ QueryCarried' ]_vars

C30_Witness ==
    /\ req.pc = "done" /\ req.http = 200 /\ req.user_query # ""
    /\ Len(req.backends) >= 2 /\ req.fetch_calls >= 2 /\ Len(req.answers) >= 2
    /\ req.a4_query = req.user_query

FetchInit == fetch = FetchIdle /\ div = DivIdle /\ sin = SinIdle /\ req = ReqIdle /\ call = CallIdle

FetchNext == FetchStart \/ FetchAttempt

SpecFetch == FetchInit /\ [][FetchNext]_vars

====
